---- MODULE Spec2Model ----
(***************************************************************************)
(* OrionTV: playback session store (playerStore), source speed test and    *)
(* scoring (speedTest), and the detail screen's ranking cycle.             *)
(*                                                                         *)
(* Times are milliseconds.  Scores are kept in thousandths before rounding *)
(* and in hundredths after (Math.round(score * 100) / 100).                *)
(* Episode indexes are 0-based as in the source; TLA+ sequences are        *)
(* 1-based, so episode index i is episodes[i + 1].                         *)
(***************************************************************************)
EXTENDS Integers, Sequences, FiniteSets, TLC

\* JavaScript undefined / null in an optional numeric field.
Undefined == -1

\* a || b for numbers: undefined, null and 0 are falsy.
Truthy(x) == x # Undefined /\ x # 0

Min(a, b) == IF a <= b THEN a ELSE b

Max(a, b) == IF a >= b THEN a ELSE b

(***************************************************************************)
(* Bounds of the model.                                                    *)
(***************************************************************************)
\* episodes of the source being played
NumEpisodes == 3

\* loadVideo calls that may wait for the play record at the same time
MaxPendingLoads == 2

(***************************************************************************)
(* Program constants of the player store.                                  *)
(***************************************************************************)
\* _savePlayRecord: setTimeout(..., 10000)
ThrottleMs == 10000

\* seek: setTimeout(..., 500)
SeekSettleMs == 500

(***************************************************************************)
(* Inputs.                                                                 *)
(***************************************************************************)
\* data.duration * 1000 and data.seekableDuration * 1000
Durations == {0, 10000}

\* data.currentTime * 1000 and seek targets
Positions == {1500, 9500, 10000}

\* the route's position parameter, in seconds (absent: Undefined)
ResumeSecs == {Undefined, 0, 2}

\* how far the environment lets time pass in one step
TimeSteps == {500, 5000}

\* the episode list episodesSelectorBySource returns
SourceEpisodes == [i \in 1..NumEpisodes |-> i]

VARIABLES
    \* ---- playerStore state
    videoRef,               \* TRUE when setVideoRef has installed a ref object
    videoCurrent,           \* TRUE when ref.current is a mounted <Video>
    episodes,
    currentEpisodeIndex,
    status,
    isLoading,
    showEpisodeModal,
    showNextEpisodeOverlay,
    isSeeking,
    seekPosition,           \* <<numerator, denominator>>
    progressPosition,       \* <<numerator, denominator>>
    initialPosition,
    introEndTime,
    outroStartTime,
    seekTimeout,            \* ms left on the pending seek timer, or Undefined
    isRecordSaveThrottled,
    throttleTimers,         \* ms left on each pending throttle timer
    \* ---- collaborators
    detail,                 \* TRUE when useDetailStore.getState().detail is set
    playRecord,             \* the record PlayRecordManager holds for the content
    pendingLoads,           \* loadVideo calls waiting on PlayRecordManager.get
    latestLoad,             \* the latest loadVideo call that got past its detail check
    \* ---- what the last step did
    lastOp,                 \* the name of the operation
    engineCalls,            \* calls made on videoRef.current
    saved,                  \* records handed to PlayRecordManager.save
    \* ---- history of the non-immediate _savePlayRecord calls, kept by the
    \*      specifications that start with histOn
    histOn,
    saveHist,
    sinceSave               \* ms since the last non-immediate call, capped

VARIABLES
    \* ---- speedTest module state
    now,                    \* Date.now()
    speedTestCache,         \* url -> {result, timestamp}, or NoEntry
    probes,                 \* the testPlaySource calls in flight, by number
    probeCount,             \* testPlaySource calls made so far
    probed,                 \* url -> what the call that stored the entry returned
    probeEvent              \* what the last step did in speedTest

VARIABLES
    \* ---- one calculateSourceScore call
    scoreArgs,              \* its arguments
    score                   \* its return value in hundredths, NotScored before

VARIABLES
    \* ---- the detail screen's list of sources
    searchResults,          \* the list on screen
    sortedResults,          \* what sortSourcesByScore returned
    rankInput,              \* the list as it was when the ranking ran
    ranked                  \* TRUE when the ranking has run

VARIABLES
    \* ---- one run of performSpeedTests on the detail screen
    currentResults,         \* its copy of the list
    cycleIndex,             \* the position of the loop in it, from 1
    consumed,               \* testPlaySource results the loop has taken
    aborted,                \* controllerRef.current.signal.aborted
    cycleInput,             \* the list the run started from
    atAbort                 \* the run as it was when the signal fired

VARIABLES
    \* ---- M3U8AdFilterService
    filterCache,            \* url -> the cached FilteredM3U8 with its timestamp
    filterCalls,            \* the filterM3U8 calls waiting for their fetch
    filterCount,            \* filterM3U8 calls made so far
    blobSupported,          \* the runtime has Blob and URL.createObjectURL works
    served,                 \* the playlist the server holds
    filterEvent             \* what the last step did in the filter service

VARIABLES
    \* ---- the play screen's watchdog on isLoading
    watchdogTimer,          \* ms left on its setTimeout, or Undefined
    watchdogSeen,           \* the isLoading its effect last ran with
    toast                   \* the toast the watchdog put on screen, or "none"

VARIABLES
    \* ---- the play screen's filtered URL
    filteredUrlState,       \* its filteredUrl state: NoUrlYet, or a URL and whose it is
    urlSeen,                \* the currentEpisode?.url its effect last ran with
    filterWaits             \* the URLs whose filterM3U8 call has not returned

sessionVars == <<videoRef, videoCurrent, episodes, currentEpisodeIndex, status,
                 isLoading, showEpisodeModal, showNextEpisodeOverlay, isSeeking,
                 seekPosition, progressPosition, initialPosition, introEndTime,
                 outroStartTime, seekTimeout, isRecordSaveThrottled,
                 throttleTimers, detail, playRecord, pendingLoads, latestLoad,
                 lastOp, engineCalls, saved, histOn, saveHist, sinceSave>>

probeVars == <<now, speedTestCache, probes, probeCount, probed, probeEvent>>

scoreVars == <<scoreArgs, score>>

cycleVars == <<currentResults, cycleIndex, consumed, aborted, cycleInput, atAbort>>

rankVars == <<searchResults, sortedResults, rankInput, ranked, cycleVars>>

filterVars == <<filterCache, filterCalls, filterCount, blobSupported, served,
               filterEvent>>

watchVars == <<watchdogTimer, watchdogSeen, toast>>

urlVars == <<filteredUrlState, urlSeen, filterWaits>>

vars == <<sessionVars, probeVars, scoreVars, rankVars, filterVars, watchVars, urlVars>>

\* what a step of each part leaves alone
notSession == <<probeVars, scoreVars, rankVars, filterVars, watchVars, urlVars>>

notProbe == <<sessionVars, scoreVars, rankVars, filterVars, watchVars, urlVars>>

notScore == <<sessionVars, probeVars, rankVars, filterVars, watchVars, urlVars>>

notRank == <<sessionVars, probeVars, scoreVars, filterVars, watchVars, urlVars>>

notFilter == <<sessionVars, probeVars, scoreVars, rankVars, watchVars, urlVars>>

notWatch == <<sessionVars, probeVars, scoreVars, rankVars, filterVars, urlVars>>

notUrl == <<sessionVars, probeVars, scoreVars, rankVars, filterVars, watchVars>>

\* the step is operation op of the player store; only loadVideo makes a new
\* load request
Did(op) ==
    /\ lastOp' = op
    /\ op # "loadVideo" => UNCHANGED latestLoad
    /\ UNCHANGED notSession

\* status: null
NullStatus == [isLoaded |-> FALSE, isPlaying |-> FALSE,
               positionMillis |-> 0, durationMillis |-> 0]

\* PlayRecordManager.get resolving to nothing
NoRecord == [exists |-> FALSE, index |-> 0, total_episodes |-> 0,
             play_time |-> 0, total_time |-> 0,
             introEndTime |-> Undefined, outroStartTime |-> Undefined]

\* no loadVideo call yet
NoLoad == [episodeIndex |-> -1, position |-> Undefined, episodes |-> <<>>]

\* no non-immediate _savePlayRecord call yet.  Afterwards: n calls seen (capped
\* at 2); of the last two, w1/w2 whether each wrote, t1/t2 the throttle flag
\* each found, l1/l2 whether each found detail and a loaded status, and gap the
\* time between them.
NoHist == [n |-> 0, gap |-> 0, w1 |-> FALSE, t1 |-> FALSE, l1 |-> FALSE,
           w2 |-> FALSE, t2 |-> FALSE, l2 |-> FALSE]

\* the updates argument of a bare _savePlayRecord() call
NoUpdates == [k \in {} |-> 0]

\* What PlayRecordManager may hold when the app starts: nothing, or a record an
\* earlier session of the same content saved.
StoredRecords ==
    {NoRecord} \cup
    {[exists |-> TRUE, index |-> 0, total_episodes |-> NumEpisodes,
      play_time |-> r[1], total_time |-> 10,
      introEndTime |-> r[2], outroStartTime |-> r[3]] :
        r \in {<<0, 1500, Undefined>>, <<1, 1500, 500>>}}

(***************************************************************************)
(* playerStore: initial state.  The store is fresh; the persisted record   *)
(* outlives the process, so it starts as any stored record.                *)
(***************************************************************************)
StoreInit ==
    /\ videoRef = FALSE
    /\ videoCurrent = FALSE
    /\ episodes = <<>>
    /\ currentEpisodeIndex = -1
    /\ status = NullStatus
    /\ isLoading = TRUE
    /\ showEpisodeModal = FALSE
    /\ showNextEpisodeOverlay = FALSE
    /\ isSeeking = FALSE
    /\ seekPosition = <<0, 1>>
    /\ progressPosition = <<0, 1>>
    /\ initialPosition = 0
    /\ introEndTime = Undefined
    /\ outroStartTime = Undefined
    /\ seekTimeout = Undefined
    /\ isRecordSaveThrottled = FALSE
    /\ throttleTimers = {}
    /\ detail = FALSE
    /\ playRecord \in StoredRecords
    /\ pendingLoads = {}
    /\ latestLoad = NoLoad
    /\ lastOp = "init"
    /\ engineCalls = <<>>
    /\ saved = <<>>
    /\ saveHist = NoHist
    /\ sinceSave = 0

SessionInit == StoreInit /\ histOn = FALSE

\* the same, keeping the history of the non-immediate saves
HistInit == StoreInit /\ histOn = TRUE

\* mutant: the ref object is taken for the player
HasHandleRefOnly == videoRef

\* videoRef?.current
HasHandle == videoRef /\ videoCurrent

(***************************************************************************)
(* _savePlayRecord(updates, {immediate}).  The handlers call it in the     *)
(* middle of their own work, so it is written over the values the store    *)
(* holds at the moment of the call.                                        *)
(***************************************************************************)
\* mutant: no throttle
PassesThrottleAlways(immediate, throttled) == TRUE

\* the call gets past the throttle check
PassesThrottle(immediate, throttled) == immediate \/ ~throttled

\* detail && status?.isLoaded
CanSave(st) == detail /\ st.isLoaded

\* the object handed to PlayRecordManager.save, before ...updates
BaseRecord(st, idx, eps, intro, outro) ==
    [exists |-> TRUE,
     index |-> idx,
     total_episodes |-> Len(eps),
     play_time |-> st.positionMillis \div 1000,
     total_time |-> IF st.durationMillis # 0 THEN st.durationMillis \div 1000 ELSE 0,
     introEndTime |-> intro,
     outroStartTime |-> outro]

\* { ...base, ...updates }
Spread(base, updates) ==
    [k \in DOMAIN base |-> IF k \in DOMAIN updates THEN updates[k] ELSE base[k]]

SavePlayRecord(immediate, updates, st, idx, eps, intro, outro) ==
    LET passes == PassesThrottle(immediate, isRecordSaveThrottled)
        writes == passes /\ CanSave(st)
        rec    == Spread(BaseRecord(st, idx, eps, intro, outro), updates)
    IN  /\ isRecordSaveThrottled' = (IF immediate THEN isRecordSaveThrottled ELSE TRUE)
        /\ throttleTimers' = IF ~immediate /\ passes
                                THEN throttleTimers \cup {ThrottleMs}
                                ELSE throttleTimers
        /\ saved' = IF writes THEN <<rec>> ELSE <<>>
        /\ playRecord' = IF writes THEN rec ELSE playRecord
        /\ UNCHANGED histOn
        /\ IF immediate \/ ~histOn
              THEN UNCHANGED <<saveHist, sinceSave>>
              ELSE /\ sinceSave' = 0
                   /\ saveHist' = [n   |-> Min(saveHist.n + 1, 2),
                                   gap |-> IF saveHist.n = 0 THEN 0 ELSE sinceSave,
                                   w1  |-> saveHist.w2,
                                   t1  |-> saveHist.t2,
                                   l1  |-> saveHist.l2,
                                   w2  |-> writes,
                                   t2  |-> isRecordSaveThrottled,
                                   l2  |-> CanSave(st)]

\* a handler that does not reach _savePlayRecord
NoSave ==
    /\ saved' = <<>>
    /\ UNCHANGED <<isRecordSaveThrottled, throttleTimers, playRecord, histOn,
                   saveHist, sinceSave>>

(***************************************************************************)
(* playerStore: operations.                                                *)
(***************************************************************************)
SetVideoRef ==
    /\ videoRef' = TRUE
    /\ Did("setVideoRef")
    /\ engineCalls' = <<>>
    /\ NoSave
    /\ UNCHANGED <<videoCurrent, episodes, currentEpisodeIndex, status, isLoading,
                   showEpisodeModal, showNextEpisodeOverlay, isSeeking, seekPosition,
                   progressPosition, initialPosition, introEndTime, outroStartTime,
                   seekTimeout, detail, pendingLoads>>

\* position ? position * 1000 : 0
ResumeMillis(position) == IF Truthy(position) THEN position * 1000 ELSE 0

\* mutant: loadVideo goes on without the detail
LoadVideoStartUnchecked(episodeIndex, position) ==
    /\ Cardinality(pendingLoads) < MaxPendingLoads
    /\ Did("loadVideo")
    /\ engineCalls' = <<>>
    /\ NoSave
    /\ LET load == [episodeIndex |-> episodeIndex, position |-> position,
                    episodes |-> SourceEpisodes]
       IN  /\ isLoading' = TRUE
           /\ initialPosition' = ResumeMillis(position)
           /\ pendingLoads' = pendingLoads \cup {load}
           /\ latestLoad' = load
    /\ UNCHANGED <<videoRef, videoCurrent, episodes, currentEpisodeIndex, status,
                   showEpisodeModal, showNextEpisodeOverlay, isSeeking, seekPosition,
                   progressPosition, introEndTime, outroStartTime, seekTimeout, detail>>

\* loadVideo up to its await of PlayRecordManager.get
LoadVideoStart(episodeIndex, position) ==
    /\ Cardinality(pendingLoads) < MaxPendingLoads
    /\ Did("loadVideo")
    /\ engineCalls' = <<>>
    /\ NoSave
    /\ IF ~detail
          THEN UNCHANGED <<isLoading, initialPosition, pendingLoads, latestLoad>>
          ELSE LET load == [episodeIndex |-> episodeIndex, position |-> position,
                            episodes |-> SourceEpisodes]
               IN  /\ isLoading' = TRUE
                   /\ initialPosition' = ResumeMillis(position)
                   /\ pendingLoads' = pendingLoads \cup {load}
                   /\ latestLoad' = load
    /\ UNCHANGED <<videoRef, videoCurrent, episodes, currentEpisodeIndex, status,
                   showEpisodeModal, showNextEpisodeOverlay, isSeeking, seekPosition,
                   progressPosition, introEndTime, outroStartTime, seekTimeout, detail>>

\* position ? position * 1000 : (playRecord?.play_time ? playRecord.play_time * 1000 : 0)
InitialPositionOf(position, record) ==
    IF Truthy(position) THEN position * 1000
    ELSE IF record.exists /\ Truthy(record.play_time) THEN record.play_time * 1000
    ELSE 0

\* loadVideo after PlayRecordManager.get resolved with the stored record
LoadVideoDone(l) ==
    /\ l \in pendingLoads
    /\ pendingLoads' = pendingLoads \ {l}
    /\ Did("loadVideoDone")
    /\ engineCalls' = <<>>
    /\ NoSave
    /\ episodes' = l.episodes
    /\ currentEpisodeIndex' = l.episodeIndex
    /\ isLoading' = FALSE
    /\ initialPosition' = InitialPositionOf(l.position, playRecord)
    /\ introEndTime' = (IF playRecord.exists THEN playRecord.introEndTime ELSE Undefined)
    /\ outroStartTime' = (IF playRecord.exists THEN playRecord.outroStartTime ELSE Undefined)
    /\ UNCHANGED <<videoRef, videoCurrent, status, showEpisodeModal,
                   showNextEpisodeOverlay, isSeeking, seekPosition, progressPosition,
                   seekTimeout, detail>>

\* loadVideo after PlayRecordManager.get rejected: the catch block
LoadVideoFailed(l) ==
    /\ l \in pendingLoads
    /\ pendingLoads' = pendingLoads \ {l}
    /\ Did("loadVideoFailed")
    /\ engineCalls' = <<>>
    /\ NoSave
    /\ isLoading' = FALSE
    /\ UNCHANGED <<videoRef, videoCurrent, episodes, currentEpisodeIndex, status,
                   showEpisodeModal, showNextEpisodeOverlay, isSeeking, seekPosition,
                   progressPosition, initialPosition, introEndTime, outroStartTime,
                   seekTimeout, detail>>

\* index >= 0 && index < episodes.length
ValidEpisode(index, eps) == index >= 0 /\ index < Len(eps)

PlayEpisode(index) ==
    /\ Did("playEpisode")
    /\ engineCalls' = <<>>
    /\ NoSave
    /\ IF ValidEpisode(index, episodes)
          THEN currentEpisodeIndex' = index /\ showEpisodeModal' = FALSE
          ELSE UNCHANGED <<currentEpisodeIndex, showEpisodeModal>>
    /\ UNCHANGED <<videoRef, videoCurrent, episodes, status, isLoading,
                   showNextEpisodeOverlay, isSeeking, seekPosition, progressPosition,
                   initialPosition, introEndTime, outroStartTime, seekTimeout, detail,
                   pendingLoads>>

TogglePlayPause ==
    /\ Did("togglePlayPause")
    /\ engineCalls' = IF HasHandle /\ status.isLoaded
                        THEN IF status.isPlaying THEN << <<"pause", 0, 1>> >>
                                                 ELSE << <<"resume", 0, 1>> >>
                        ELSE <<>>
    /\ NoSave
    /\ UNCHANGED <<videoRef, videoCurrent, episodes, currentEpisodeIndex, status,
                   isLoading, showEpisodeModal, showNextEpisodeOverlay, isSeeking,
                   seekPosition, progressPosition, initialPosition, introEndTime,
                   outroStartTime, seekTimeout, detail, pendingLoads>>

\* mutant: the duration is used as it is
SeekDenominatorRaw(st) == st.durationMillis

\* status?.durationMillis || 1
SeekDenominator(st) == IF st.durationMillis # 0 THEN st.durationMillis ELSE 1

\* seek(positionMillis): the engine gets positionMillis / 1000 seconds, kept as
\* the fraction <<positionMillis, 1000>>
Seek(positionMillis) ==
    /\ Did("seek")
    /\ isSeeking' = TRUE
    /\ seekPosition' = <<positionMillis, SeekDenominator(status)>>
    /\ engineCalls' = IF HasHandle THEN << <<"seek", positionMillis, 1000>> >> ELSE <<>>
    /\ seekTimeout' = SeekSettleMs
    /\ NoSave
    /\ UNCHANGED <<videoRef, videoCurrent, episodes, currentEpisodeIndex, status,
                   isLoading, showEpisodeModal, showNextEpisodeOverlay,
                   progressPosition, initialPosition, introEndTime, outroStartTime,
                   detail, pendingLoads>>

\* the callback of seek's setTimeout
SeekTimerFires ==
    /\ seekTimeout = 0
    /\ seekTimeout' = Undefined
    /\ isSeeking' = FALSE
    /\ Did("seekTimer")
    /\ engineCalls' = <<>>
    /\ NoSave
    /\ UNCHANGED <<videoRef, videoCurrent, episodes, currentEpisodeIndex, status,
                   isLoading, showEpisodeModal, showNextEpisodeOverlay, seekPosition,
                   progressPosition, initialPosition, introEndTime, outroStartTime,
                   detail, pendingLoads>>

\* mutant: the later of the two points instead of the first that is set
JumpPositionLater(initial, intro) ==
    Max(initial, IF Truthy(intro) THEN intro ELSE 0)

\* initialPosition || introEndTime || 0
JumpPosition(initial, intro) ==
    IF Truthy(initial) THEN initial ELSE IF Truthy(intro) THEN intro ELSE 0

\* handleLoad(data), data.duration * 1000 = durationMillis
HandleLoad(durationMillis) ==
    LET jumpPosition == JumpPosition(initialPosition, introEndTime)
    IN  /\ Did("handleLoad")
        /\ status' = [isLoaded |-> TRUE, isPlaying |-> FALSE,
                      positionMillis |-> 0, durationMillis |-> durationMillis]
        /\ isLoading' = FALSE
        /\ engineCalls' = IF jumpPosition > 0 /\ HasHandle
                            THEN << <<"seek", jumpPosition, 1000>> >>
                            ELSE <<>>
        /\ NoSave
        /\ UNCHANGED <<videoRef, videoCurrent, episodes, currentEpisodeIndex,
                       showEpisodeModal, showNextEpisodeOverlay, isSeeking,
                       seekPosition, progressPosition, initialPosition, introEndTime,
                       outroStartTime, seekTimeout, detail, pendingLoads>>

SetIntroEndTime ==
    /\ Did("setIntroEndTime")
    /\ engineCalls' = <<>>
    /\ IF ~status.isLoaded \/ ~detail
          THEN NoSave /\ UNCHANGED introEndTime
          ELSE LET new == IF Truthy(introEndTime) THEN Undefined
                                                  ELSE status.positionMillis
               IN  /\ introEndTime' = new
                   /\ SavePlayRecord(TRUE, [introEndTime |-> new], status,
                                     currentEpisodeIndex, episodes, new, outroStartTime)
    /\ UNCHANGED <<videoRef, videoCurrent, episodes, currentEpisodeIndex, status,
                   isLoading, showEpisodeModal, showNextEpisodeOverlay, isSeeking,
                   seekPosition, progressPosition, initialPosition, outroStartTime,
                   seekTimeout, detail, pendingLoads>>

SetOutroStartTime ==
    /\ Did("setOutroStartTime")
    /\ engineCalls' = <<>>
    /\ IF ~status.isLoaded \/ ~detail
          THEN NoSave /\ UNCHANGED outroStartTime
          ELSE IF ~Truthy(outroStartTime) /\ status.durationMillis = 0
          THEN NoSave /\ UNCHANGED outroStartTime
          ELSE LET new == IF Truthy(outroStartTime) THEN Undefined
                          ELSE status.durationMillis - status.positionMillis
               IN  /\ outroStartTime' = new
                   /\ SavePlayRecord(TRUE, [outroStartTime |-> new], status,
                                     currentEpisodeIndex, episodes, introEndTime, new)
    /\ UNCHANGED <<videoRef, videoCurrent, episodes, currentEpisodeIndex, status,
                   isLoading, showEpisodeModal, showNextEpisodeOverlay, isSeeking,
                   seekPosition, progressPosition, initialPosition, introEndTime,
                   seekTimeout, detail, pendingLoads>>

\* _savePlayRecord called on its own (it is part of the store's interface)
SavePlayRecordCall(immediate) ==
    /\ Did("_savePlayRecord")
    /\ engineCalls' = <<>>
    /\ SavePlayRecord(immediate, NoUpdates, status, currentEpisodeIndex, episodes,
                      introEndTime, outroStartTime)
    /\ UNCHANGED <<videoRef, videoCurrent, episodes, currentEpisodeIndex, status,
                   isLoading, showEpisodeModal, showNextEpisodeOverlay, isSeeking,
                   seekPosition, progressPosition, initialPosition, introEndTime,
                   outroStartTime, seekTimeout, detail, pendingLoads>>

\* mutant: the boundary position does not count as reached
OutroReachedStrict(outro, positionMillis, durationMillis) ==
    /\ Truthy(outro)
    /\ durationMillis # 0
    /\ positionMillis > durationMillis - outro

\* outroStartTime && durationMillis && positionMillis >= durationMillis - outroStartTime
OutroReached(outro, positionMillis, durationMillis) ==
    /\ Truthy(outro)
    /\ durationMillis # 0
    /\ positionMillis >= durationMillis - outro

\* currentEpisodeIndex < episodes.length - 1
HasNextEpisode(idx, eps) == idx < Len(eps) - 1

\* mutant: 95 % of the duration counts as near the end
IsNearEndInclusive(positionMillis, durationMillis) ==
    positionMillis * 100 >= 95 * durationMillis

\* positionMillis / durationMillis > 0.95
IsNearEnd(positionMillis, durationMillis) ==
    positionMillis * 100 > 95 * durationMillis

\* handlePlaybackStatusUpdate(data), with data.currentTime * 1000 = positionMillis
\* and data.seekableDuration * 1000 = durationMillis
HandlePlaybackStatusUpdate(positionMillis, durationMillis) ==
    LET newStatus == [isLoaded |-> TRUE, isPlaying |-> TRUE,
                      positionMillis |-> positionMillis,
                      durationMillis |-> durationMillis]
    IN  /\ Did("handlePlaybackStatusUpdate")
        /\ engineCalls' = <<>>
        /\ IF /\ OutroReached(outroStartTime, positionMillis, durationMillis)
              /\ HasNextEpisode(currentEpisodeIndex, episodes)
              THEN \* playEpisode(currentEpisodeIndex + 1); return
                   /\ IF ValidEpisode(currentEpisodeIndex + 1, episodes)
                         THEN /\ currentEpisodeIndex' = currentEpisodeIndex + 1
                              /\ showEpisodeModal' = FALSE
                         ELSE UNCHANGED <<currentEpisodeIndex, showEpisodeModal>>
                   /\ NoSave
                   /\ UNCHANGED <<status, progressPosition, showNextEpisodeOverlay>>
              ELSE /\ IF detail /\ durationMillis # 0
                         THEN /\ SavePlayRecord(FALSE, NoUpdates, status,
                                                currentEpisodeIndex, episodes,
                                                introEndTime, outroStartTime)
                              /\ showNextEpisodeOverlay' =
                                    (/\ IsNearEnd(positionMillis, durationMillis)
                                     /\ HasNextEpisode(currentEpisodeIndex, episodes)
                                     /\ ~Truthy(outroStartTime))
                         ELSE NoSave /\ UNCHANGED showNextEpisodeOverlay
                   /\ progressPosition' = (IF durationMillis # 0
                                             THEN <<positionMillis, durationMillis>>
                                             ELSE <<0, 1>>)
                   /\ status' = newStatus
                   /\ UNCHANGED <<currentEpisodeIndex, showEpisodeModal>>
        /\ UNCHANGED <<videoRef, videoCurrent, episodes, isLoading, isSeeking,
                       seekPosition, initialPosition, introEndTime, outroStartTime,
                       seekTimeout, detail, pendingLoads>>

SetShowEpisodeModal(show) ==
    /\ Did("setShowEpisodeModal")
    /\ showEpisodeModal' = show
    /\ engineCalls' = <<>>
    /\ NoSave
    /\ UNCHANGED <<videoRef, videoCurrent, episodes, currentEpisodeIndex, status,
                   isLoading, showNextEpisodeOverlay, isSeeking, seekPosition,
                   progressPosition, initialPosition, introEndTime, outroStartTime,
                   seekTimeout, detail, pendingLoads>>

Reset ==
    /\ Did("reset")
    /\ episodes' = <<>>
    /\ currentEpisodeIndex' = 0
    /\ status' = NullStatus
    /\ isLoading' = TRUE
    /\ showEpisodeModal' = FALSE
    /\ showNextEpisodeOverlay' = FALSE
    /\ initialPosition' = 0
    /\ introEndTime' = Undefined
    /\ outroStartTime' = Undefined
    /\ engineCalls' = <<>>
    /\ NoSave
    /\ UNCHANGED <<videoRef, videoCurrent, isSeeking, seekPosition, progressPosition,
                   seekTimeout, detail, pendingLoads>>

(***************************************************************************)
(* The play screen's <Video> callbacks that write the store directly.      *)
(***************************************************************************)
\* onEnd
OnEnd ==
    /\ Did("onEnd")
    /\ engineCalls' = <<>>
    /\ NoSave
    /\ IF /\ HasNextEpisode(currentEpisodeIndex, episodes)
          /\ ValidEpisode(currentEpisodeIndex + 1, episodes)
          THEN /\ currentEpisodeIndex' = currentEpisodeIndex + 1
               /\ showEpisodeModal' = FALSE
          ELSE UNCHANGED <<currentEpisodeIndex, showEpisodeModal>>
    /\ UNCHANGED <<videoRef, videoCurrent, episodes, status, isLoading,
                   showNextEpisodeOverlay, isSeeking, seekPosition, progressPosition,
                   initialPosition, introEndTime, outroStartTime, seekTimeout, detail,
                   pendingLoads>>

\* onLoadStart (loading = TRUE) and onError (loading = FALSE)
SetIsLoading(loading) ==
    /\ Did("setState.isLoading")
    /\ isLoading' = loading
    /\ engineCalls' = <<>>
    /\ NoSave
    /\ UNCHANGED <<videoRef, videoCurrent, episodes, currentEpisodeIndex, status,
                   showEpisodeModal, showNextEpisodeOverlay, isSeeking, seekPosition,
                   progressPosition, initialPosition, introEndTime, outroStartTime,
                   seekTimeout, detail, pendingLoads>>

(***************************************************************************)
(* The environment: React mounting the <Video>, the detail store, timers.  *)
(***************************************************************************)
VideoMounts(mounted) ==
    /\ videoCurrent # mounted
    /\ videoCurrent' = mounted
    /\ Did("videoMounts")
    /\ engineCalls' = <<>>
    /\ NoSave
    /\ UNCHANGED <<videoRef, episodes, currentEpisodeIndex, status, isLoading,
                   showEpisodeModal, showNextEpisodeOverlay, isSeeking, seekPosition,
                   progressPosition, initialPosition, introEndTime, outroStartTime,
                   seekTimeout, detail, pendingLoads>>

DetailArrives ==
    /\ ~detail
    /\ detail' = TRUE
    /\ Did("detailArrives")
    /\ engineCalls' = <<>>
    /\ NoSave
    /\ UNCHANGED <<videoRef, videoCurrent, episodes, currentEpisodeIndex, status,
                   isLoading, showEpisodeModal, showNextEpisodeOverlay, isSeeking,
                   seekPosition, progressPosition, initialPosition, introEndTime,
                   outroStartTime, seekTimeout, pendingLoads>>

\* the callback of _savePlayRecord's setTimeout
ThrottleTimerFires ==
    /\ 0 \in throttleTimers
    /\ throttleTimers' = throttleTimers \ {0}
    /\ isRecordSaveThrottled' = FALSE
    /\ Did("throttleTimer")
    /\ engineCalls' = <<>>
    /\ saved' = <<>>
    /\ UNCHANGED <<videoRef, videoCurrent, episodes, currentEpisodeIndex, status,
                   isLoading, showEpisodeModal, showNextEpisodeOverlay, isSeeking,
                   seekPosition, progressPosition, initialPosition, introEndTime,
                   outroStartTime, seekTimeout, detail, playRecord, pendingLoads,
                   histOn, saveHist, sinceSave>>

PendingTimers == throttleTimers \cup (IF seekTimeout = Undefined THEN {} ELSE {seekTimeout})

\* d ms pass; a timer that is due fires before more time passes
Advance(d) ==
    /\ \A t \in PendingTimers : d <= t
    /\ PendingTimers # {} \/ (histOn /\ sinceSave < ThrottleMs)
    /\ throttleTimers' = {t - d : t \in throttleTimers}
    /\ seekTimeout' = (IF seekTimeout = Undefined THEN Undefined ELSE seekTimeout - d)
    /\ sinceSave' = (IF histOn THEN Min(sinceSave + d, ThrottleMs) ELSE sinceSave)
    /\ Did("advance")
    /\ engineCalls' = <<>>
    /\ saved' = <<>>
    /\ UNCHANGED <<videoRef, videoCurrent, episodes, currentEpisodeIndex, status,
                   isLoading, showEpisodeModal, showNextEpisodeOverlay, isSeeking,
                   seekPosition, progressPosition, initialPosition, introEndTime,
                   outroStartTime, isRecordSaveThrottled, detail, playRecord,
                   pendingLoads, histOn, saveHist>>

SessionNext ==
    \/ SetVideoRef
    \/ \E i \in 0..(NumEpisodes - 1), p \in ResumeSecs : LoadVideoStart(i, p)
    \/ \E l \in pendingLoads : LoadVideoDone(l)
    \/ \E l \in pendingLoads : LoadVideoFailed(l)
    \/ \E i \in -1..NumEpisodes : PlayEpisode(i)
    \/ TogglePlayPause
    \/ \E p \in Positions : Seek(p)
    \/ SeekTimerFires
    \/ \E d \in Durations : HandleLoad(d)
    \/ SetIntroEndTime
    \/ SetOutroStartTime
    \/ \E b \in BOOLEAN : SavePlayRecordCall(b)
    \/ \E p \in Positions, d \in Durations : HandlePlaybackStatusUpdate(p, d)
    \/ \E b \in BOOLEAN : SetShowEpisodeModal(b)
    \/ Reset
    \/ OnEnd
    \/ \E b \in BOOLEAN : SetIsLoading(b)
    \/ \E b \in BOOLEAN : VideoMounts(b)
    \/ DetailArrives
    \/ ThrottleTimerFires
    \/ \E d \in TimeSteps : Advance(d)

(***************************************************************************)
(* The play screen's watchdog: useEffect(..., [isLoading]) arms a timer    *)
(* when it runs with isLoading true, and its cleanup clears the timer.     *)
(* React runs the effect after every render in which isLoading changed,    *)
(* before the next change is rendered.                                     *)
(***************************************************************************)
WatchdogMs == 60000

\* mutant: the effect arms no timer
ArmedTimerNever(loading) == Undefined

\* if (isLoading) timeoutId = setTimeout(..., 60000)
ArmedTimer(loading) == IF loading THEN WatchdogMs ELSE Undefined

\* the screen has mounted over the fresh store: the effect has run with
\* isLoading true
WatchInit ==
    /\ watchdogTimer = WatchdogMs
    /\ watchdogSeen = TRUE
    /\ toast = "none"

\* the effects of the last render have run
Rendered == watchdogSeen = isLoading

\* isLoading changed: the cleanup of the previous run, then the effect
WatchdogEffect ==
    /\ ~Rendered
    /\ watchdogSeen' = isLoading
    /\ watchdogTimer' = ArmedTimer(isLoading)
    /\ UNCHANGED <<toast, notWatch>>

\* the callback of the watchdog's setTimeout
WatchdogFires ==
    /\ watchdogTimer = 0
    /\ watchdogTimer' = Undefined
    /\ IF isLoading
          THEN isLoading' = FALSE /\ toast' = "timeout"
          ELSE UNCHANGED <<isLoading, toast>>
    /\ lastOp' = "watchdog"
    /\ engineCalls' = <<>>
    /\ NoSave
    /\ UNCHANGED <<videoRef, videoCurrent, episodes, currentEpisodeIndex, status,
                   showEpisodeModal, showNextEpisodeOverlay, isSeeking, seekPosition,
                   progressPosition, initialPosition, introEndTime, outroStartTime,
                   seekTimeout, detail, pendingLoads, latestLoad>>
    /\ UNCHANGED <<watchdogSeen, probeVars, scoreVars, rankVars, filterVars, urlVars>>

\* d ms pass on the play screen; the toast has gone by then
WatchTimePasses(d) ==
    /\ Rendered
    /\ watchdogTimer # Undefined
    /\ d <= watchdogTimer
    /\ watchdogTimer' = watchdogTimer - d
    /\ toast' = "none"
    /\ UNCHANGED <<watchdogSeen, notWatch>>

\* a store operation reaches the screen once the last render's effects ran
WatchNext ==
    \/ WatchdogEffect
    \/ WatchdogFires
    \/ WatchTimePasses(WatchdogMs \div 2)
    \/ /\ Rendered
       /\ \/ DetailArrives
          \/ \E i \in 0..(NumEpisodes - 1) : LoadVideoStart(i, Undefined)
          \/ \E l \in pendingLoads : LoadVideoDone(l)
          \/ \E l \in pendingLoads : LoadVideoFailed(l)
          \/ \E d \in Durations : HandleLoad(d)
          \/ \E b \in BOOLEAN : SetIsLoading(b)
          \/ Reset

(***************************************************************************)
(* The play screen's filtered URL: its state filteredUrl and the effect on *)
(* [currentEpisode?.url] that runs processVideoUrl.  The URL of an episode *)
(* is the episode and its extension; a filtered URL is the URL it was made *)
(* for and whether it is a blob or that URL itself.                        *)
(***************************************************************************)
\* episodes[i].url: the last episode of a source is an mp4 file
EpisodeUrl(episode) ==
    [id |-> episode, ext |-> IF episode < NumEpisodes THEN "M3U8" ELSE "mp4"]

\* currentEpisode?.url of no episode: undefined
NoEpisodeUrl == [id |-> 0, ext |-> ""]

\* selectCurrentEpisode, and of its result ?.url
SelectCurrentEpisode ==
    IF Len(episodes) > currentEpisodeIndex /\ currentEpisodeIndex >= 0
       THEN EpisodeUrl(episodes[currentEpisodeIndex + 1])
       ELSE NoEpisodeUrl

\* useState<string>("")
NoUrlYet == [of |-> NoEpisodeUrl, blob |-> FALSE]

\* the screen at mount: the effect has run with no episode
UrlInit ==
    /\ filteredUrlState = NoUrlYet
    /\ urlSeen = NoEpisodeUrl
    /\ filterWaits = {}

\* the effect, run after a render in which currentEpisode?.url has changed:
\* processVideoUrl up to its await, or to its end for no URL at all or for
\* a URL without ".m3u8" in its lower-case form
ProcessVideoUrl ==
    /\ urlSeen # SelectCurrentEpisode
    /\ urlSeen' = SelectCurrentEpisode
    /\ IF SelectCurrentEpisode = NoEpisodeUrl
          THEN UNCHANGED <<filteredUrlState, filterWaits>>
       ELSE IF SelectCurrentEpisode.ext \in {"m3u8", "M3U8"}
          THEN /\ filterWaits' = filterWaits \cup {SelectCurrentEpisode}
               /\ UNCHANGED filteredUrlState
          ELSE /\ filteredUrlState' = [of |-> SelectCurrentEpisode, blob |-> FALSE]
               /\ UNCHANGED filterWaits
    /\ UNCHANGED notUrl

\* processVideoUrl after its await: filterM3U8 has returned for url, with a
\* blob URL or with url itself, and setFilteredUrl stores what it returned
SetFilteredUrl(url, blob) ==
    /\ url \in filterWaits
    /\ filterWaits' = filterWaits \ {url}
    /\ filteredUrlState' = [of |-> url, blob |-> blob]
    /\ UNCHANGED <<urlSeen, notUrl>>

(***************************************************************************)
(* The claims are checked on restrictions of SessionNext to the operations *)
(* each is about; every restriction starts in SessionInit.                 *)
(***************************************************************************)
\* loading a session and the player's first load event
LoadNext ==
    \/ SetVideoRef
    \/ \E b \in BOOLEAN : VideoMounts(b)
    \/ DetailArrives
    \/ \E i \in 0..(NumEpisodes - 1), p \in ResumeSecs : LoadVideoStart(i, p)
    \/ \E l \in pendingLoads : LoadVideoDone(l)
    \/ \E l \in pendingLoads : LoadVideoFailed(l)
    \/ \E d \in Durations : HandleLoad(d)
    \/ Reset

\* one load of the session, the detail store filled or not
LoadOnce ==
    \/ DetailArrives
    \/ \E i \in 0..(NumEpisodes - 1) :
          episodes = <<>> /\ pendingLoads = {} /\ LoadVideoStart(i, Undefined)
    \/ \E l \in pendingLoads : LoadVideoDone(l)

\* progress updates and episode changes in a loaded session
PlaybackNext ==
    \/ LoadOnce
    \/ \E d \in Durations : HandleLoad(d)
    \/ \E p \in Positions, d \in Durations : HandlePlaybackStatusUpdate(p, d)
    \/ \E i \in -1..NumEpisodes : PlayEpisode(i)
    \/ OnEnd
    \/ ThrottleTimerFires
    \/ Advance(ThrottleMs)

\* saving the play record, throttled and immediate
PersistNext ==
    \/ LoadOnce
    \/ HandleLoad(10000)
    \/ \E d \in Durations : HandlePlaybackStatusUpdate(1500, d)
    \/ \E b \in BOOLEAN : SavePlayRecordCall(b)
    \/ ThrottleTimerFires
    \/ Advance(5000)

\* progress updates towards the end of an episode, the outro point marked
\* or cleared on the way
NearEndNext ==
    \/ LoadOnce
    \/ HandleLoad(10000)
    \/ \E p \in Positions, d \in Durations : HandlePlaybackStatusUpdate(p, d)
    \/ SetOutroStartTime
    \/ OnEnd

\* seeking, with and without the player mounted and the duration known
SeekNext ==
    \/ LoadOnce
    \/ SetVideoRef
    \/ \E b \in BOOLEAN : VideoMounts(b)
    \/ \E d \in Durations : HandleLoad(d)
    \/ \E p \in Positions : Seek(p)
    \/ SeekTimerFires
    \/ TogglePlayPause
    \/ Reset
    \/ \E d \in {SeekSettleMs \div 2, SeekSettleMs} : Advance(d)

\* moving to other episodes in a session loaded once, the player mounted
ResumeNext ==
    \/ LoadOnce
    \/ SetVideoRef
    \/ VideoMounts(TRUE)
    \/ \E d \in Durations : HandleLoad(d)
    \/ \E p \in Positions : HandlePlaybackStatusUpdate(p, 10000)
    \/ \E i \in 0..(NumEpisodes - 1) : PlayEpisode(i)
    \/ OnEnd

\* progress updates at the end of an episode of 10 s, at or past every outro
\* point a stored record holds, in a session loaded once
OutroNext ==
    \/ LoadOnce
    \/ HandleLoad(10000)
    \/ \E p \in {9500, 10000} : HandlePlaybackStatusUpdate(p, 10000)
    \/ ThrottleTimerFires
    \/ Advance(ThrottleMs)

\* the screen following the episodes of a session loaded once
UrlNext ==
    \/ LoadOnce
    \/ \E i \in 0..(NumEpisodes - 1) : PlayEpisode(i)
    \/ OnEnd
    \/ ProcessVideoUrl
    \/ \E u \in filterWaits, b \in BOOLEAN : SetFilteredUrl(u, b)

\* marking and clearing the skip points during playback
SkipPointNext ==
    \/ LoadOnce
    \/ \E d \in Durations : HandleLoad(d)
    \/ \E p \in {1500, 10000}, d \in Durations : HandlePlaybackStatusUpdate(p, d)
    \/ SetIntroEndTime
    \/ SetOutroStartTime
    \/ ThrottleTimerFires
    \/ Advance(ThrottleMs)

(***************************************************************************)
(* speedTest: testLatency, testDownloadSpeed, testPlaySource and the       *)
(* module-level speedTestCache.  A testPlaySource call is a task: it reads *)
(* the cache when it starts, its two requests resolve in any order, and it *)
(* stores and returns its result when both have resolved.                  *)
(***************************************************************************)
\* const CACHE_DURATION = 10 * 60 * 1000
CACHE_DURATION == 10 * 60 * 1000

\* the value testLatency returns for a failed request (JavaScript Infinity):
\* larger than every time the clock reaches
Infinity == 1000000000

\* a request that has not resolved yet
Pending == -2

\* testPlaySource calls made in one run
MaxProbes == 2

\* the clock stops here
MaxClock == 600300

\* ms a response takes, per step of waiting
NetworkDelayMs == 100

\* ms that pass between two uses of the screen
IdleSteps == {CACHE_DURATION - NetworkDelayMs, CACHE_DURATION}

\* the body sizes a playlist request returns, in KB
BodySizesKB == {50}

\* play URLs: id is the address, ext the extension it ends with
Urls == {[id |-> "a", ext |-> "M3U8"], [id |-> "b", ext |-> "mp4"]}

\* toLowerCase() on the extensions above
ToLowerCase(ext) == IF ext = "M3U8" THEN "m3u8" ELSE ext

\* url.toLowerCase().endsWith('.m3u8')
IsM3U8(url) == ToLowerCase(url.ext) = "m3u8"

NoResult == [latency |-> Pending, downloadSpeed |-> Pending,
             isAvailable |-> FALSE, error |-> "none"]

\* speedTestCache[url] === undefined
NoEntry == [present |-> FALSE, result |-> NoResult, timestamp |-> 0]

\* a step of speedTest: the operation, and for a testPlaySource call that
\* returned in this step its url, whether it was served from the cache, the
\* requests it issued, the result it returned and whether it had found an
\* entry that was too old (stale)
ProbeEvent(op, url, hit, fetches, result) ==
    [op |-> op, url |-> url, hit |-> hit, fetches |-> fetches, result |-> result,
     stale |-> FALSE,
     stats |-> [totalEntries |-> 0, validEntries |-> 0, expiredEntries |-> 0]]

NoUrl == [id |-> "none", ext |-> "none"]

Event(op) == ProbeEvent(op, NoUrl, FALSE, 0, NoResult)

\* the step of speedTest is e
Emit(e) == probeEvent' = e /\ UNCHANGED notProbe

ProbeInit ==
    /\ now = 0
    /\ speedTestCache = [u \in Urls |-> NoEntry]
    /\ probes = [id \in {} |-> 0]
    /\ probeCount = 0
    /\ probed = [u \in Urls |-> NoResult]
    /\ probeEvent = Event("init")

\* mutant: an entry that is exactly CACHE_DURATION old still counts
IsFreshInclusive(entry, t) ==
    entry.present /\ t - entry.timestamp <= CACHE_DURATION

\* mutant: the comparison the wrong way round
IsFreshReversed(entry, t) ==
    entry.present /\ t - entry.timestamp > CACHE_DURATION

\* cached && Date.now() - cached.timestamp < CACHE_DURATION
IsFresh(entry, t) ==
    entry.present /\ t - entry.timestamp < CACHE_DURATION

\* the requests a call that misses the cache issues at once: the HEAD request
\* of testLatency, and the GET of testDownloadSpeed for a playlist URL
RequestsIssued(url) == IF IsM3U8(url) THEN 2 ELSE 1

\* testPlaySource(url), up to its first await: a fresh entry is returned at
\* once, otherwise both measurements start
TestPlaySourceStart(url) ==
    LET cached == speedTestCache[url]
        id     == probeCount + 1
        call   == [url |-> url,
                   start |-> now,
                   fetches |-> RequestsIssued(url),
                   stale |-> cached.present,
                   latency |-> Pending,
                   downloadSpeed |-> IF IsM3U8(url) THEN Pending ELSE 0]
    IN  /\ probeCount < MaxProbes
        /\ probeCount' = id
        /\ IF IsFresh(cached, now)
              THEN /\ Emit(ProbeEvent("testPlaySource", url, TRUE, 0,
                                               cached.result))
                   /\ UNCHANGED probes
              ELSE /\ Emit(Event("testPlaySourceStart"))
                   /\ probes' = [i \in DOMAIN probes \cup {id} |->
                                   IF i = id THEN call ELSE probes[i]]
        /\ UNCHANGED <<now, speedTestCache, probed>>

\* testLatency: the HEAD request resolves; response.ok gives the elapsed time,
\* anything else (status, network error, abort, timeout) gives Infinity
LatencyResolves(id, ok) ==
    /\ probes[id].latency = Pending
    /\ probes' = [probes EXCEPT ![id].latency =
                     IF ok THEN now - probes[id].start ELSE Infinity]
    /\ Emit(Event("testLatency"))
    /\ UNCHANGED <<now, speedTestCache, probeCount, probed>>

\* duration > 0 ? sizeInKB / duration : 0, duration in seconds
SpeedOf(sizeInKB, elapsedMs) ==
    IF elapsedMs > 0 THEN (sizeInKB * 1000) \div elapsedMs ELSE 0

\* testDownloadSpeed: the GET request resolves; a body gives size over time,
\* anything else gives 0
DownloadResolves(id, ok, sizeInKB) ==
    /\ probes[id].downloadSpeed = Pending
    /\ probes' = [probes EXCEPT ![id].downloadSpeed =
                     IF ok THEN SpeedOf(sizeInKB, now - probes[id].start) ELSE 0]
    /\ Emit(Event("testDownloadSpeed"))
    /\ UNCHANGED <<now, speedTestCache, probeCount, probed>>

\* mutant: a failed request still counts as an available source
ResultOfLenient(latency, downloadSpeed) ==
    [latency |-> IF latency = Infinity THEN -1 ELSE latency,
     downloadSpeed |-> downloadSpeed,
     isAvailable |-> TRUE,
     error |-> IF latency = Infinity THEN "connection failed" ELSE "none"]

\* the SpeedTestResult built from the two measurements
ResultOf(latency, downloadSpeed) ==
    [latency |-> IF latency = Infinity THEN -1 ELSE latency,
     downloadSpeed |-> downloadSpeed,
     isAvailable |-> latency # Infinity,
     error |-> IF latency = Infinity THEN "connection failed" ELSE "none"]

\* testPlaySource after Promise.all: build the result, store it, return it.
\* testLatency and testDownloadSpeed catch their own failures and resolve with
\* Infinity and 0, so Promise.all does not reject and the catch block of
\* testPlaySource is not entered.
TestPlaySourceReturns(id) ==
    LET call   == probes[id]
        result == ResultOf(call.latency, call.downloadSpeed)
    IN  /\ call.latency # Pending
        /\ call.downloadSpeed # Pending
        /\ speedTestCache' = [speedTestCache EXCEPT ![call.url] =
                                [present |-> TRUE, result |-> result, timestamp |-> now]]
        /\ probed' = [probed EXCEPT ![call.url] = result]
        /\ probes' = [i \in DOMAIN probes \ {id} |-> probes[i]]
        /\ Emit([ProbeEvent("testPlaySource", call.url, FALSE, call.fetches, result)
                   EXCEPT !.stale = call.stale])
        /\ UNCHANGED <<now, probeCount>>

\* clearSpeedTestCache(): delete every key
ClearSpeedTestCache ==
    /\ speedTestCache' = [u \in Urls |-> NoEntry]
    /\ probed' = [u \in Urls |-> NoResult]
    /\ Emit(Event("clearSpeedTestCache"))
    /\ UNCHANGED <<now, probes, probeCount>>

\* mutant: an entry that is exactly CACHE_DURATION old counts as valid
CacheStatsInclusive ==
    LET total == Cardinality({u \in Urls : speedTestCache[u].present})
        valid == Cardinality({u \in Urls : /\ speedTestCache[u].present
                                           /\ now - speedTestCache[u].timestamp
                                                <= CACHE_DURATION})
    IN  [totalEntries |-> total, validEntries |-> valid,
         expiredEntries |-> total - valid]

\* getSpeedTestCacheStats(): entries in the cache, and those of them younger
\* than CACHE_DURATION
CacheStats ==
    LET total == Cardinality({u \in Urls : speedTestCache[u].present})
        valid == Cardinality({u \in Urls : /\ speedTestCache[u].present
                                           /\ now - speedTestCache[u].timestamp
                                                < CACHE_DURATION})
    IN  [totalEntries |-> total, validEntries |-> valid,
         expiredEntries |-> total - valid]

GetSpeedTestCacheStats ==
    /\ Emit([Event("getSpeedTestCacheStats") EXCEPT !.stats = CacheStats])
    /\ UNCHANGED <<now, speedTestCache, probes, probeCount, probed>>

\* a response is on its way for NetworkDelayMs more
NetworkDelay ==
    /\ DOMAIN probes # {}
    /\ \A id \in DOMAIN probes : now - probes[id].start < NetworkDelayMs
    /\ now' = now + NetworkDelayMs
    /\ Emit(Event("wait"))
    /\ UNCHANGED <<speedTestCache, probes, probeCount, probed>>

\* d ms pass with no call in flight (the requests time out after 5 and 8 s, so
\* no call is in flight that long)
TimePasses(d) ==
    /\ DOMAIN probes = {}
    /\ now + d <= MaxClock
    /\ now' = now + d
    /\ Emit(Event("idle"))
    /\ UNCHANGED <<speedTestCache, probes, probeCount, probed>>

ProbeNext ==
    \/ \E u \in Urls : TestPlaySourceStart(u)
    \/ \E id \in DOMAIN probes, ok \in BOOLEAN : LatencyResolves(id, ok)
    \/ \E id \in DOMAIN probes, ok \in BOOLEAN, kb \in BodySizesKB :
          DownloadResolves(id, ok, kb)
    \/ \E id \in DOMAIN probes : TestPlaySourceReturns(id)
    \/ ClearSpeedTestCache
    \/ GetSpeedTestCacheStats
    \/ NetworkDelay
    \/ \E d \in IdleSteps : TimePasses(d)

(***************************************************************************)
(* speedTest: calculateSourceScore.  Points are kept in thousandths while  *)
(* they are added up and the result is in hundredths.                      *)
(***************************************************************************)
\* the return value before the call
NotScored == -1

\* resolution labels: a string is its characters; null is not a string
Label(chars) == [isNull |-> FALSE, chars |-> chars]

NullLabel == [isNull |-> TRUE, chars |-> <<>>]

Resolutions ==
    {NullLabel, Label(<<>>),
     Label(<<"2", "1", "6", "0", "p">>), Label(<<"1", "4", "4", "0", "p">>),
     Label(<<"1", "0", "8", "0", "p">>), Label(<<"7", "2", "0", "p">>),
     Label(<<"4", "8", "0", "p">>), Label(<<"3", "6", "0", "p">>),
     Label(<<"4", "K">>), Label(<<"H", "D">>)}

Latencies == {-1, 0, 100, 101, 120, 300, 301, 500, 501, 1000, 1001, 2000, 2001}

DownloadSpeeds == {0, 49, 50, 99, 100, 199, 200, 450, 499, 500, 999, 1000}

EpisodeCounts == {0, 1, 24, 39, 40, 41}

ScoreArgs(latency, downloadSpeed, resolution, episodeCount, isAvailable) ==
    [latency |-> latency, downloadSpeed |-> downloadSpeed, resolution |-> resolution,
     episodeCount |-> episodeCount, isAvailable |-> isAvailable]

\* the call of speedTestExamples.ts
ExampleArgs == ScoreArgs(120, 450, Label(<<"1", "0", "8", "0", "p">>), 24, TRUE)

ScoreInputs ==
    {ScoreArgs(l, d, r, e, a) :
        l \in Latencies, d \in DownloadSpeeds, r \in Resolutions,
        e \in EpisodeCounts, a \in BOOLEAN}

Digits == {"0", "1", "2", "3", "4", "5", "6", "7", "8", "9"}

DigitValue(c) ==
    CASE c = "0" -> 0 [] c = "1" -> 1 [] c = "2" -> 2 [] c = "3" -> 3
      [] c = "4" -> 4 [] c = "5" -> 5 [] c = "6" -> 6 [] c = "7" -> 7
      [] c = "8" -> 8 [] c = "9" -> 9

\* String.prototype.replace(pattern, ''), pattern one character: the first
\* occurrence goes
ReplaceFirst(chars, c) ==
    IF \E i \in 1..Len(chars) : chars[i] = c
       THEN LET k == CHOOSE i \in 1..Len(chars) :
                       chars[i] = c /\ \A j \in 1..(i - 1) : chars[j] # c
            IN  SubSeq(chars, 1, k - 1) \o SubSeq(chars, k + 1, Len(chars))
       ELSE chars

\* the value of a sequence of digits
RECURSIVE DigitsValue(_)
DigitsValue(ds) ==
    IF ds = <<>> THEN 0
    ELSE 10 * DigitsValue(SubSeq(ds, 1, Len(ds) - 1)) + DigitValue(ds[Len(ds)])

\* parseInt(chars): the leading digits, NaN when there are none
ParseInt(chars) ==
    LET n == Cardinality({i \in 1..Len(chars) :
                             \A j \in 1..i : chars[j] \in Digits})
    IN  IF n = 0 THEN [nan |-> TRUE, value |-> 0]
        ELSE [nan |-> FALSE, value |-> DigitsValue(SubSeq(chars, 1, n))]

\* height >= n; every comparison with NaN is false
AtLeast(height, n) == ~height.nan /\ height.value >= n

\* resolutionScore; !resolution holds for null and for the empty string
ResolutionScore(resolution) ==
    IF resolution.isNull \/ resolution.chars = <<>> THEN 10
    ELSE LET height == ParseInt(ReplaceFirst(resolution.chars, "p"))
         IN  IF AtLeast(height, 2160) THEN 40
             ELSE IF AtLeast(height, 1440) THEN 35
             ELSE IF AtLeast(height, 1080) THEN 30
             ELSE IF AtLeast(height, 720) THEN 25
             ELSE IF AtLeast(height, 480) THEN 15
             ELSE 10

\* mutant: no cap on the episode points
EpisodeScore1000Uncapped(episodeCount) == episodeCount * 500

\* episodeScore = Math.min(episodeCount * 0.5, 20), in thousandths
EpisodeScore1000(episodeCount) == Min(episodeCount * 500, 20000)

\* mutant: the bands one step too generous
SpeedScoreGenerous(downloadSpeed) ==
    IF downloadSpeed >= 500 THEN 25
    ELSE IF downloadSpeed >= 200 THEN 20
    ELSE IF downloadSpeed >= 100 THEN 15
    ELSE IF downloadSpeed >= 50 THEN 10
    ELSE 0

\* speedScore
SpeedScore(downloadSpeed) ==
    IF downloadSpeed >= 1000 THEN 25
    ELSE IF downloadSpeed >= 500 THEN 20
    ELSE IF downloadSpeed >= 200 THEN 15
    ELSE IF downloadSpeed >= 100 THEN 10
    ELSE IF downloadSpeed >= 50 THEN 5
    ELSE 0

\* mutant: the boundary latencies fall into the lower band
LatencyScoreExclusive(latency) ==
    IF latency < 100 THEN 15
    ELSE IF latency < 300 THEN 12
    ELSE IF latency < 500 THEN 8
    ELSE IF latency < 1000 THEN 5
    ELSE IF latency < 2000 THEN 2
    ELSE 0

\* latencyScore
LatencyScore(latency) ==
    IF latency <= 100 THEN 15
    ELSE IF latency <= 300 THEN 12
    ELSE IF latency <= 500 THEN 8
    ELSE IF latency <= 1000 THEN 5
    ELSE IF latency <= 2000 THEN 2
    ELSE 0

\* Math.round(score * 100) / 100 of a non-negative score given in thousandths:
\* hundredths, halves up
Round100(score1000) == (score1000 + 5) \div 10

\* mutant: only the availability flag decides
UnusableFlagOnly(latency, isAvailable) == ~isAvailable

\* !isAvailable || latency < 0
Unusable(latency, isAvailable) == ~isAvailable \/ latency < 0

CalculateSourceScore(latency, downloadSpeed, resolution, episodeCount, isAvailable) ==
    IF Unusable(latency, isAvailable) THEN 0
    ELSE Round100(1000 * ResolutionScore(resolution)
                  + EpisodeScore1000(episodeCount)
                  + 1000 * SpeedScore(downloadSpeed)
                  + 1000 * LatencyScore(latency))

\* no call made: the arguments of the example, no return value
ScoreIdle == scoreArgs = ExampleArgs /\ score = NotScored

ScoreInit == scoreArgs \in ScoreInputs /\ score = NotScored

\* one call of calculateSourceScore with the arguments drawn
CalculateScore ==
    /\ score = NotScored
    /\ score' = CalculateSourceScore(scoreArgs.latency, scoreArgs.downloadSpeed,
                                     scoreArgs.resolution, scoreArgs.episodeCount,
                                     scoreArgs.isAvailable)
    /\ UNCHANGED scoreArgs
    /\ UNCHANGED notScore

ScoreNext == CalculateScore

(***************************************************************************)
(* speedTest: sortSourcesByScore, and the end of the detail screen's       *)
(* performSpeedTests, which ranks the list on screen.                      *)
(***************************************************************************)
\* sources on the detail screen
MaxSources == 3

SourceKeys == <<"s1", "s2", "s3", "s4", "s5">>

R1080 == Label(<<"1", "0", "8", "0", "p">>)

R2160 == Label(<<"2", "1", "6", "0", "p">>)

\* a source as fetchDetailData puts it on the list, not measured yet
Unmeasured(resolution, episodeCount) ==
    [latency |-> -1, downloadSpeed |-> 0, isAvailable |-> "true", score |-> 0,
     resolution |-> resolution, episodes |-> episodeCount]

\* the same source after performSpeedTests has measured it
Measured(src, result) ==
    [src EXCEPT !.latency = result.latency,
                !.downloadSpeed = result.downloadSpeed,
                !.isAvailable = IF result.isAvailable THEN "true" ELSE "false",
                !.score = CalculateSourceScore(result.latency, result.downloadSpeed,
                                               src.resolution, src.episodes,
                                               result.isAvailable)]

\* the sources a list is drawn from: without episodes and never measured,
\* measured with a good, an instant, a failed and a better result
SampleSources ==
    {Unmeasured(R1080, 0),
     Measured(Unmeasured(R1080, 24), ResultOf(100, 500)),
     Measured(Unmeasured(NullLabel, 24), ResultOf(0, 0)),
     Measured(Unmeasured(R1080, 24), ResultOf(Infinity, 0)),
     Measured(Unmeasured(R2160, 40), ResultOf(100, 1000))}

\* the lists of n sources, the i-th with key SourceKeys[i]
SourceLists(n) ==
    {[i \in 1..n |-> [source |-> SourceKeys[i]] @@ f[i]] :
        f \in [1..n -> SampleSources]}

\* x || d for numbers
OrElse(x, d) == IF Truthy(x) THEN x ELSE d

\* the SourceScore sortSourcesByScore makes of a source
SourceScoreOf(src) ==
    LET latency       == OrElse(src.latency, -1)
        downloadSpeed == OrElse(src.downloadSpeed, 0)
        episodeCount  == OrElse(src.episodes, 0)
        isAvailable   == src.isAvailable # "false"
    IN  [source |-> src.source,
         score |-> CalculateSourceScore(latency, downloadSpeed, src.resolution,
                                        episodeCount, isAvailable),
         latency |-> latency,
         downloadSpeed |-> downloadSpeed,
         resolution |-> src.resolution,
         episodeCount |-> episodeCount,
         isAvailable |-> isAvailable]

\* (a, b) => b.score - a.score; the list on screen is compared the same way,
\* with (score || 0), and every score there is a number
CompareByScore(a, b) == b.score - a.score

\* mutant: elements that compare equal come out in reverse order
TieBreakReversed(i, j) == i > j

\* Array.prototype.sort is stable: of two elements that compare equal the one
\* earlier in the array stays first
TieBreak(i, j) == i < j

\* Array.prototype.sort with CompareByScore: the element at i goes behind
\* those that compare before it and those that compare equal and stay first
SortByScore(seq) ==
    LET n == Len(seq)
        before(i) == {j \in 1..n :
                        \/ CompareByScore(seq[j], seq[i]) < 0
                        \/ CompareByScore(seq[j], seq[i]) = 0 /\ TieBreak(j, i)}
    IN  [k \in 1..n |-> seq[CHOOSE i \in 1..n : Cardinality(before(i)) = k - 1]]

\* sources.map(...).sort(...)
SortSourcesByScore(sources) ==
    SortByScore([i \in 1..Len(sources) |-> SourceScoreOf(sources[i])])

\* the run before the signal has fired
NotAborted == [list |-> <<>>, index |-> 0, inFlight |-> FALSE]

\* no run of performSpeedTests
CycleIdle ==
    /\ currentResults = <<>>
    /\ cycleIndex = 1
    /\ consumed = 0
    /\ aborted = FALSE
    /\ cycleInput = <<>>
    /\ atAbort = NotAborted

\* no list on screen
RankIdle ==
    /\ searchResults = <<>>
    /\ sortedResults = <<>>
    /\ rankInput = <<>>
    /\ ranked = FALSE
    /\ CycleIdle

RankInit ==
    /\ \E n \in 0..MaxSources : searchResults \in SourceLists(n)
    /\ sortedResults = <<>>
    /\ rankInput = <<>>
    /\ ranked = FALSE
    /\ CycleIdle

\* performSpeedTests, after its loop: sortSourcesByScore(currentResults), then
\* currentResults.sort(...) and setSearchResults
RankSources ==
    /\ ~ranked
    /\ ranked' = TRUE
    /\ rankInput' = searchResults
    /\ sortedResults' = SortSourcesByScore(searchResults)
    /\ searchResults' = SortByScore(searchResults)
    /\ UNCHANGED <<cycleVars, notRank>>

\* the screen is left and opened again with the list as ranked
Reopen ==
    /\ ranked
    /\ ranked' = FALSE
    /\ UNCHANGED <<searchResults, sortedResults, rankInput, cycleVars>>
    /\ UNCHANGED notRank

RankNext == RankSources \/ Reopen

(***************************************************************************)
(* M3U8AdFilterService: filterM3U8 with parseM3U8, filterAdSegments,       *)
(* generateM3U8 and createBlobUrl, and its cache.  A string is the         *)
(* sequence of its characters.  A playlist is the sequence of its lines;   *)
(* a line is kept as what the code looks at: whether it starts with        *)
(* white space (lead), what it starts with after trim() (kind: "#EXTINF:", *)
(* another "#", nothing, anything else) and the rest of its text.          *)
(* Durations are in thousandths of a second; NaN is a value of its own.    *)
(***************************************************************************)
\* private static readonly CACHE_DURATION = 10 * 60 * 1000
AdFilter_CACHE_DURATION == 10 * 60 * 1000

\* filterM3U8 calls made in one run
MaxFilterCalls == 2

\* segments of the playlists drawn
MaxSegments == 1

\* const DEFAULT_AD_PATTERNS
DEFAULT_AD_PATTERNS ==
    << <<"a", "d", ".">>,
       <<"a", "d", "s", ".">>,
       <<"a", "d", "v", "e", "r", "t", "i", "s", "i", "n", "g", ".">>,
       <<"d", "o", "u", "b", "l", "e", "c", "l", "i", "c", "k", ".">>,
       <<"g", "o", "o", "g", "l", "e", "s", "y", "n", "d", "i", "c", "a", "t", "i", "o", "n", ".">>,
       <<"a", "m", "a", "z", "o", "n", "-", "a", "d", "s", "y", "s", "t", "e", "m", ".">>,
       <<"a", "d", "s", "y", "s", "t", "e", "m", ".">>,
       <<"a", "d", "f", "o", "r", "m", ".">>,
       <<"a", "d", "n", "x", "s", ".">>,
       <<"a", "d", "s", "y", "s", "t", "e", "m", ".">>,
       <<"g", "o", "o", "g", "l", "e", "t", "a", "g">>,
       <<"g", "o", "o", "g", "l", "e", "a", "d", "s">>,
       <<"/", "a", "d", "s", "/">>,
       <<"/", "a", "d", "/">>,
       <<"/", "a", "d", "v", "e", "r", "t", "i", "s", "i", "n", "g", "/">>,
       <<"p", "r", "e", "r", "o", "l", "l">>,
       <<"m", "i", "d", "r", "o", "l", "l">>,
       <<"p", "o", "s", "t", "r", "o", "l", "l">> >>

\* the lower-case letter of each upper-case letter
LowerOf ==
    LET upper == <<"A", "B", "C", "D", "E", "F", "G", "H", "I", "J", "K", "L", "M",
                   "N", "O", "P", "Q", "R", "S", "T", "U", "V", "W", "X", "Y", "Z">>
        lower == <<"a", "b", "c", "d", "e", "f", "g", "h", "i", "j", "k", "l", "m",
                   "n", "o", "p", "q", "r", "s", "t", "u", "v", "w", "x", "y", "z">>
    IN  [c \in {upper[k] : k \in 1..26} |->
            lower[CHOOSE k \in 1..26 : upper[k] = c]]

\* String.prototype.toLowerCase(), character by character
LowerChars(chars) ==
    [i \in 1..Len(chars) |->
        IF chars[i] \in DOMAIN LowerOf THEN LowerOf[chars[i]] ELSE chars[i]]

\* String.prototype.includes(part)
Includes(chars, part) ==
    \E k \in 0..(Len(chars) - Len(part)) : SubSeq(chars, k + 1, k + Len(part)) = part

\* a number, or NaN
Num(v) == [nan |-> FALSE, value |-> v]

NaN == [nan |-> TRUE, value |-> 0]

\* the longest prefix of chars made of characters of set
PrefixOf(chars, set) ==
    SubSeq(chars, 1, Cardinality({i \in 1..Len(chars) :
                                     \A j \in 1..i : chars[j] \in set}))

\* parseFloat(chars) for chars made of digits and dots: the digits, a dot and
\* the digits after it, of which the first three count here; NaN when there
\* is no digit in that
ParseFloat(chars) ==
    LET int  == PrefixOf(chars, Digits)
        rest == SubSeq(chars, Len(int) + 1, Len(chars))
        frac == IF rest # <<>> /\ Head(rest) = "."
                   THEN PrefixOf(Tail(rest), Digits) ELSE <<>>
    IN  IF int = <<>> /\ frac = <<>> THEN NaN
        ELSE Num(1000 * DigitsValue(int)
                 + DigitsValue(SubSeq(frac \o <<"0", "0", "0">>, 1, 3)))

\* line.match(/#EXTINF:([0-9.]+)/) on a line that starts with "#EXTINF:", text
\* being what follows: durationMatch ? parseFloat(durationMatch[1]) : 0
ExtinfDuration(text) ==
    LET durationMatch == PrefixOf(text, Digits \cup {"."})
    IN  IF durationMatch # <<>> THEN ParseFloat(durationMatch) ELSE Num(0)

\* a line of a playlist: "extinf" is "#EXTINF:" and text, "tag" another line
\* that starts with "#", "uri" any other text, "blank" white space only
Line(kind, text) == [kind |-> kind, lead |-> FALSE, text |-> text]

\* parseM3U8: the for loop from line i on, with currentDuration and segments
RECURSIVE ParseLines(_, _, _)
ParseLines(lines, currentDuration, segments) ==
    IF lines = <<>> THEN segments
    ELSE LET line == Head(lines)
         IN  IF line.kind = "extinf"
                THEN ParseLines(Tail(lines), ExtinfDuration(line.text), segments)
             ELSE IF line.kind = "uri"
                THEN ParseLines(Tail(lines), Num(0),
                                Append(segments, [duration |-> currentDuration,
                                                  uri |-> line.text]))
             ELSE ParseLines(Tail(lines), currentDuration, segments)

ParseM3U8(content) == ParseLines(content, Num(0), <<>>)

\* adPatterns.some(pattern => segment.uri.toLowerCase().includes(pattern.toLowerCase()))
IsAdByPattern(segment, adPatterns) ==
    LET uri == LowerChars(segment.uri)
    IN  \E i \in 1..Len(adPatterns) : Includes(uri, LowerChars(adPatterns[i]))

\* mutant: a segment of exactly the minimum duration counts as short
IsShortInclusive(segment, minDuration) ==
    ~segment.duration.nan /\ segment.duration.value <= minDuration.value

\* segment.duration < minDuration; every comparison with NaN is false
IsShort(segment, minDuration) ==
    ~segment.duration.nan /\ segment.duration.value < minDuration.value

\* filterAdSegments
FilterAdSegments(segments, adPatterns, minDuration) ==
    SelectSeq(segments,
              LAMBDA segment : /\ ~IsShort(segment, minDuration)
                               /\ ~IsAdByPattern(segment, adPatterns))

\* segments.reduce((sum, seg) => sum + seg.duration, 0)
RECURSIVE SumDurations(_)
SumDurations(segments) ==
    IF segments = <<>> THEN Num(0)
    ELSE LET sum == SumDurations(SubSeq(segments, 1, Len(segments) - 1))
             seg == segments[Len(segments)]
         IN  IF sum.nan \/ seg.duration.nan THEN NaN
             ELSE Num(sum.value + seg.duration.value)

\* the decimal digits of a natural number
RECURSIVE NatChars(_)
NatChars(n) ==
    IF n < 10 THEN <<SelectSeq(<<"0", "1", "2", "3", "4", "5", "6", "7", "8", "9">>,
                               LAMBDA c : DigitValue(c) = n)[1]>>
    ELSE NatChars(n \div 10) \o NatChars(n % 10)

\* Number.prototype.toFixed(3) of a duration kept in thousandths
ToFixed3(x) ==
    IF x.nan THEN <<"N", "a", "N">>
    ELSE NatChars(x.value \div 1000) \o <<".">>
         \o NatChars((x.value % 1000) \div 100)
         \o NatChars((x.value % 100) \div 10)
         \o NatChars(x.value % 10)

\* mutant: the end marker is written only after a segment
GenerateM3U8OpenWhenEmpty(segments, originalContent) ==
    LET StartsWithHash(line) == ~line.lead /\ line.kind \in {"extinf", "tag"}
        StartsWithEXTINF(line) == ~line.lead /\ line.kind = "extinf"
        IsBlank(line) == line.kind = "blank"
        i == Cardinality({k \in 1..Len(originalContent) :
                            \A j \in 1..k : \/ StartsWithHash(originalContent[j])
                                            \/ IsBlank(originalContent[j])})
        headerLines == SelectSeq(SubSeq(originalContent, 1, i),
                                 LAMBDA line : ~StartsWithEXTINF(line) /\ ~IsBlank(line))
        pair(segment) == <<Line("extinf", ToFixed3(segment.duration) \o <<",">>),
                           Line("uri", segment.uri)>>
        filteredLines == [k \in 1..(2 * Len(segments)) |->
                             pair(segments[(k + 1) \div 2])[2 - (k % 2)]]
    IN  headerLines \o filteredLines
        \o (IF segments = <<>> THEN <<>> ELSE <<Line("tag", <<"#EXT-X-ENDLIST">>)>>)

\* mutant: the lines that start with "#" are taken from the whole playlist
GenerateM3U8AllTags(segments, originalContent) ==
    LET StartsWithHash(line) == ~line.lead /\ line.kind \in {"extinf", "tag"}
        StartsWithEXTINF(line) == ~line.lead /\ line.kind = "extinf"
        headerLines == SelectSeq(originalContent,
                                 LAMBDA line : StartsWithHash(line) /\ ~StartsWithEXTINF(line))
        pair(segment) == <<Line("extinf", ToFixed3(segment.duration) \o <<",">>),
                           Line("uri", segment.uri)>>
        filteredLines == [k \in 1..(2 * Len(segments)) |->
                             pair(segments[(k + 1) \div 2])[2 - (k % 2)]]
    IN  headerLines \o filteredLines \o <<Line("tag", <<"#EXT-X-ENDLIST">>)>>

\* generateM3U8: the header lines, a pair of lines per segment, the end
\* marker.  The header is read from the lines as they are, not trimmed
GenerateM3U8(segments, originalContent) ==
    LET StartsWithHash(line) == ~line.lead /\ line.kind \in {"extinf", "tag"}
        StartsWithEXTINF(line) == ~line.lead /\ line.kind = "extinf"
        IsBlank(line) == line.kind = "blank"
        i == Cardinality({k \in 1..Len(originalContent) :
                            \A j \in 1..k : \/ StartsWithHash(originalContent[j])
                                            \/ IsBlank(originalContent[j])})
        headerLines == SelectSeq(SubSeq(originalContent, 1, i),
                                 LAMBDA line : ~StartsWithEXTINF(line) /\ ~IsBlank(line))
        pair(segment) == <<Line("extinf", ToFixed3(segment.duration) \o <<",">>),
                           Line("uri", segment.uri)>>
        filteredLines == [k \in 1..(2 * Len(segments)) |->
                             pair(segments[(k + 1) \div 2])[2 - (k % 2)]]
    IN  headerLines \o filteredLines \o <<Line("tag", <<"#EXT-X-ENDLIST">>)>>

\* URLs: an http URL is its address, a blob URL is the content it serves
HttpUrl(id) == [scheme |-> "http", id |-> id, content |-> <<>>]

BlobUrl(content) == [scheme |-> "blob", id |-> "", content |-> content]

NullUrl == [scheme |-> "null", id |-> "", content |-> <<>>]

\* createBlobUrl: null when Blob is undefined or createObjectURL throws
CreateBlobUrl(content) == IF blobSupported THEN BlobUrl(content) ELSE NullUrl

\* the segments playlists are drawn from: the text after "#EXTINF:" and the
\* URI.  The durations are 10 s, 1.2 s, 3 s and one that is not a number
SegmentKinds ==
    {[extinf |-> <<"1", "0", ",">>, uri |-> <<"s", "e", "g", ".", "t", "s">>],
     [extinf |-> <<"1", ".", "2", ",">>, uri |-> <<"s", "e", "g", ".", "t", "s">>],
     [extinf |-> <<"1", "0", ",">>, uri |-> <<"/", "A", "D", "S", "/", "1", ".", "t", "s">>],
     [extinf |-> <<".", ",">>, uri |-> <<"s", "e", "g", ".", "t", "s">>]}

\* the playlist of a list of such segments
Playlist(kinds) ==
    <<Line("tag", <<"#EXTM3U">>)>>
    \o [k \in 1..(2 * Len(kinds)) |->
           IF k % 2 = 1 THEN Line("extinf", kinds[(k + 1) \div 2].extinf)
           ELSE Line("uri", kinds[k \div 2].uri)]
    \o <<Line("tag", <<"#EXT-X-ENDLIST">>)>>

\* five segments of 10 s, the third of 1.2 s, the fifth under /ads/
ExamplePlaylist ==
    <<Line("tag", <<"#EXTM3U">>), Line("tag", <<"#EXT-X-TARGETDURATION:10">>),
      Line("extinf", <<"1", "0", ",">>), Line("uri", <<"s", "1", ".", "t", "s">>),
      Line("extinf", <<"1", "0", ",">>), Line("uri", <<"s", "2", ".", "t", "s">>),
      Line("extinf", <<"1", ".", "2", ",">>), Line("uri", <<"s", "3", ".", "t", "s">>),
      Line("extinf", <<"1", "0", ",">>), Line("uri", <<"s", "4", ".", "t", "s">>),
      Line("extinf", <<"1", "0", ",">>), Line("uri", <<"/", "a", "d", "s", "/", "5", ".", "t", "s">>),
      Line("tag", <<"#EXT-X-ENDLIST">>)>>

\* the body of an error page
NotFoundBody == <<Line("uri", <<"N", "o", "t", " ", "F", "o", "u", "n", "d">>)>>

\* two segments with a tag between them and an end marker
DiscontinuityPlaylist ==
    <<Line("tag", <<"#EXTM3U">>), Line("tag", <<"#EXT-X-VERSION:3">>),
      Line("extinf", <<"1", "0", ",">>), Line("uri", <<"s", "1", ".", "t", "s">>),
      Line("tag", <<"#EXT-X-DISCONTINUITY">>),
      Line("extinf", <<"1", "0", ",">>), Line("uri", <<"s", "2", ".", "t", "s">>),
      Line("tag", <<"#EXT-X-ENDLIST">>)>>

\* an indented first line followed by a tag, before the only segment
IndentedPlaylist ==
    <<[Line("tag", <<"#EXTM3U">>) EXCEPT !.lead = TRUE], Line("tag", <<"#EXT-X-VERSION:3">>),
      Line("extinf", <<"1", "0", ",">>), Line("uri", <<"s", "e", "g", ".", "t", "s">>)>>

\* a segment of exactly 3 s; a tag between a duration and its URI; a URI with
\* no duration; a URI that holds "ad." inside a word; an indented first line
OddPlaylists ==
    {<<Line("tag", <<"#EXTM3U">>), Line("extinf", <<"3", ",">>), Line("uri", <<"s", "e", "g", ".", "t", "s">>)>>,
     <<Line("tag", <<"#EXTM3U">>), Line("extinf", <<"1", "0", ",">>), Line("tag", <<"#EXT-X-BYTERANGE:1@0">>),
       Line("uri", <<"s", "e", "g", ".", "t", "s">>)>>,
     <<Line("tag", <<"#EXTM3U">>), Line("blank", <<>>), Line("uri", <<"s", "e", "g", ".", "t", "s">>), Line("extinf", <<"1", "0", ",">>), Line("uri", <<"s", "e", "g", ".", "t", "s">>)>>,
     <<Line("tag", <<"#EXTM3U">>), Line("extinf", <<"1", "0", ",">>), Line("uri", <<"d", "o", "w", "n", "l", "o", "a", "d", ".", "t", "s">>)>>,
     <<[Line("tag", <<"#EXTM3U">>) EXCEPT !.lead = TRUE], Line("extinf", <<"1", "0", ",">>), Line("uri", <<"s", "e", "g", ".", "t", "s">>)>>}

Manifests ==
    {Playlist(kinds) :
        kinds \in UNION {[1..n -> SegmentKinds] : n \in 0..MaxSegments}}
    \cup OddPlaylists \cup {ExamplePlaylist, DiscontinuityPlaylist, IndentedPlaylist}

\* the addresses of the playlists
FilterUrls == {HttpUrl("e1")}

\* what fetch(url) and response.text() come to: the request rejects, the
\* body cannot be read, the playlist arrives, or an error page arrives with
\* response.ok false
FetchOutcomes(url) ==
    {[kind |-> "reject", ok |-> FALSE, body |-> <<>>],
     [kind |-> "textReject", ok |-> TRUE, body |-> <<>>],
     [kind |-> "response", ok |-> TRUE, body |-> served],
     [kind |-> "response", ok |-> FALSE, body |-> NotFoundBody]}

\* M3U8FilterOptions, a field left out being "undefined", not given or
\* Undefined: {} ; ads kept ; patterns and a minimum of the caller's own
OptionSets ==
    {[removeAds |-> "undefined", patternsGiven |-> FALSE, adPatterns |-> <<>>,
      minSegmentDuration |-> Undefined],
     [removeAds |-> "false", patternsGiven |-> FALSE, adPatterns |-> <<>>,
      minSegmentDuration |-> Undefined],
     [removeAds |-> "true", patternsGiven |-> TRUE,
      adPatterns |-> <<<<"S", "E", "G">>>>, minSegmentDuration |-> 1]}

\* const { removeAds = true, adPatterns = DEFAULT_AD_PATTERNS,
\*         minSegmentDuration = 3 } = options
ResolveOptions(options) ==
    [removeAds |-> options.removeAds # "false",
     adPatterns |-> IF options.patternsGiven THEN options.adPatterns
                    ELSE DEFAULT_AD_PATTERNS,
     minSegmentDuration |-> IF options.minSegmentDuration = Undefined THEN 3
                            ELSE options.minSegmentDuration]

\* a FilteredM3U8
FilteredM3U8(originalUrl, filteredUrl, removedSegments, totalDuration, filteredDuration, timestamp) ==
    [originalUrl |-> originalUrl, filteredUrl |-> filteredUrl,
     removedSegments |-> removedSegments, totalDuration |-> totalDuration,
     filteredDuration |-> filteredDuration, timestamp |-> timestamp]

\* what the catch block of filterM3U8 returns
PassThrough(url) == FilteredM3U8(url, url, 0, Num(0), Num(0), Undefined)

\* this.cache.get(url) === undefined
NoFiltered == [present |-> FALSE, result |-> PassThrough(NullUrl)]

\* a step of the filter service: the operation, and for a filterM3U8 call that
\* returned in this step its url and options, whether it was served from the
\* cache, what its fetch came to, the segments parsed and kept, and the result
FilterEvent(op, url, options, hit, outcome, segments, filteredSegments, result) ==
    [op |-> op, url |-> url, options |-> options, hit |-> hit,
     outcome |-> outcome, segments |-> segments,
     filteredSegments |-> filteredSegments, result |-> result]

FilterStep(op) ==
    FilterEvent(op, NullUrl,
                [removeAds |-> TRUE, adPatterns |-> <<>>, minSegmentDuration |-> 3],
                FALSE, [kind |-> "none", ok |-> FALSE, body |-> <<>>], <<>>, <<>>,
                PassThrough(NullUrl))

FilterInit ==
    /\ filterCache = [u \in FilterUrls |-> NoFiltered]
    /\ filterCalls = <<>>
    /\ filterCount = 0
    /\ blobSupported \in BOOLEAN
    /\ served \in Manifests
    /\ filterEvent = FilterStep("init")

\* the filter service unused
FilterIdle ==
    /\ filterCache = [u \in FilterUrls |-> NoFiltered]
    /\ filterCalls = <<>>
    /\ filterCount = 0
    /\ blobSupported = TRUE
    /\ served = ExamplePlaylist
    /\ filterEvent = FilterStep("init")

\* filterM3U8 with a cache that serves only the calls that remove ads
FilterM3U8StartByOptions(url, options) ==
    /\ filterCount < MaxFilterCalls
    /\ filterCount' = filterCount + 1
    /\ LET cached == filterCache[url]
           opts == ResolveOptions(options)
       IN  IF /\ cached.present
              /\ now - cached.result.timestamp < AdFilter_CACHE_DURATION
              /\ opts.removeAds
              THEN /\ filterEvent' = FilterEvent("filterM3U8", url, opts, TRUE,
                                                 FilterStep("hit").outcome, <<>>, <<>>,
                                                 cached.result)
                   /\ UNCHANGED filterCalls
              ELSE /\ filterCalls' = filterCalls @@
                                       ((filterCount + 1) :> [url |-> url, options |-> opts])
                   /\ filterEvent' = FilterStep("fetch")
    /\ UNCHANGED <<filterCache, blobSupported, served, notFilter>>

\* filterM3U8 up to its fetch: a cached result younger than CACHE_DURATION is
\* returned, otherwise the call waits for the response
FilterM3U8Start(url, options) ==
    /\ filterCount < MaxFilterCalls
    /\ filterCount' = filterCount + 1
    /\ LET cached == filterCache[url]
           opts == ResolveOptions(options)
       IN  IF cached.present /\ now - cached.result.timestamp < AdFilter_CACHE_DURATION
              THEN /\ filterEvent' = FilterEvent("filterM3U8", url, opts, TRUE,
                                                 FilterStep("hit").outcome, <<>>, <<>>,
                                                 cached.result)
                   /\ UNCHANGED filterCalls
              ELSE /\ filterCalls' = filterCalls @@
                                       ((filterCount + 1) :> [url |-> url, options |-> opts])
                   /\ filterEvent' = FilterStep("fetch")
    /\ UNCHANGED <<filterCache, blobSupported, served, notFilter>>

\* filterM3U8 from the response body to the result
FilterM3U8Body(url, opts, content, timestamp) ==
    LET segments == ParseM3U8(content)
        filteredSegments ==
            IF opts.removeAds
               THEN FilterAdSegments(segments, opts.adPatterns,
                                     Num(1000 * opts.minSegmentDuration))
               ELSE segments
        filteredContent == GenerateM3U8(filteredSegments, content)
        blobUrl == CreateBlobUrl(filteredContent)
        filteredUrl == IF blobUrl # NullUrl THEN blobUrl ELSE url
    IN  [segments |-> segments, filteredSegments |-> filteredSegments,
         result |-> FilteredM3U8(url, filteredUrl,
                                 Len(segments) - Len(filteredSegments),
                                 SumDurations(segments),
                                 SumDurations(filteredSegments), timestamp)]

\* the rest of filterM3U8, from the moment its fetch settles
FilterM3U8Resolves(id, outcome) ==
    /\ id \in DOMAIN filterCalls
    /\ LET call == filterCalls[id]
           body == FilterM3U8Body(call.url, call.options, outcome.body, now)
       IN  IF outcome.kind = "response"
              THEN /\ filterCache' =
                         [filterCache EXCEPT ![call.url] =
                             [present |-> TRUE, result |-> body.result]]
                   /\ filterEvent' = FilterEvent("filterM3U8", call.url, call.options,
                                                 FALSE, outcome, body.segments,
                                                 body.filteredSegments, body.result)
              ELSE /\ UNCHANGED filterCache
                   /\ filterEvent' = FilterEvent("filterM3U8", call.url, call.options,
                                                 FALSE, outcome, <<>>, <<>>,
                                                 PassThrough(call.url))
    /\ filterCalls' = [k \in DOMAIN filterCalls \ {id} |-> filterCalls[k]]
    /\ UNCHANGED <<filterCount, blobSupported, served, notFilter>>

\* clearCache
ClearCache ==
    /\ \E u \in FilterUrls : filterCache[u].present
    /\ filterCache' = [u \in FilterUrls |-> NoFiltered]
    /\ filterEvent' = FilterStep("clearCache")
    /\ UNCHANGED <<filterCalls, filterCount, blobSupported, served, notFilter>>

\* getFilterStats: this.cache.get(url) || null
GetFilterStats(url) ==
    /\ filterEvent.op # "getFilterStats"
    /\ filterEvent' = [FilterStep("getFilterStats") EXCEPT
                          !.url = url,
                          !.hit = filterCache[url].present,
                          !.result = filterCache[url].result]
    /\ UNCHANGED <<filterCache, filterCalls, filterCount, blobSupported, served,
                   notFilter>>

\* d ms pass with no call waiting (a fetch is short against CACHE_DURATION);
\* time counts from the first result that is stored
FilterTimePasses(d) ==
    /\ DOMAIN filterCalls = {}
    /\ \E u \in FilterUrls : filterCache[u].present
    /\ now + d <= MaxClock
    /\ now' = now + d
    /\ filterEvent' = FilterStep("idle")
    /\ UNCHANGED <<speedTestCache, probes, probeCount, probed, probeEvent,
                   sessionVars, scoreVars, rankVars, watchVars, urlVars,
                   filterCache, filterCalls, filterCount, blobSupported, served>>

FilterNext ==
    \/ \E u \in FilterUrls, o \in OptionSets : FilterM3U8Start(u, o)
    \/ \E id \in DOMAIN filterCalls :
          \E o \in FetchOutcomes(filterCalls[id].url) : FilterM3U8Resolves(id, o)
    \/ ClearCache
    \/ \E u \in FilterUrls : GetFilterStats(u)
    \/ \E d \in {AdFilter_CACHE_DURATION - 1, AdFilter_CACHE_DURATION} :
          FilterTimePasses(d)

(***************************************************************************)
(* detail screen: performSpeedTests, one run of it over the list it        *)
(* copied, with the speedTest steps above as the calls it awaits.          *)
(***************************************************************************)
\* result.episodes[0] of the source at position i of the list
FirstEpisodeUrl(i) ==
    CHOOSE u \in Urls : u.id = (IF i % 2 = 1 THEN "a" ELSE "b")

\* the lists a run starts from: sources as fetchDetailData appended them, of
\* which no more than MaxProbes have episodes
CycleLists ==
    LET fresh == {Unmeasured(R1080, 0), Unmeasured(R1080, 24), Unmeasured(NullLabel, 1)}
    IN  {l \in UNION {{[i \in 1..n |-> [source |-> SourceKeys[i]] @@ f[i]] :
                          f \in [1..n -> fresh]} : n \in 0..MaxSources} :
            Cardinality({i \in 1..Len(l) : l[i].episodes > 0}) <= MaxProbes}

\* performSpeedTests has copied the list and stands before its loop
CycleInit ==
    /\ searchResults \in CycleLists
    /\ currentResults = searchResults
    /\ cycleInput = searchResults
    /\ sortedResults = <<>>
    /\ rankInput = <<>>
    /\ ranked = FALSE
    /\ cycleIndex = 1
    /\ consumed = 0
    /\ aborted = FALSE
    /\ atAbort = NotAborted

\* mutant: the loop does not wait for the call it made
AtSourceUnawaited == ~ranked /\ cycleIndex <= Len(currentResults)

\* the loop stands at a source and is not waiting for a testPlaySource call
AtSource == ~ranked /\ cycleIndex <= Len(currentResults) /\ probeCount = consumed

\* await testPlaySource(firstEpisodeUrl, controllerRef.current?.signal): the
\* call is made for a source that has episodes
CycleCalls ==
    /\ AtSource
    /\ currentResults[cycleIndex].episodes > 0
    /\ TestPlaySourceStart(FirstEpisodeUrl(cycleIndex))

\* a source without episodes is passed over
CycleSkips ==
    /\ AtSource
    /\ currentResults[cycleIndex].episodes = 0
    /\ cycleIndex' = cycleIndex + 1
    /\ UNCHANGED <<searchResults, sortedResults, rankInput, ranked, currentResults,
                   consumed, aborted, cycleInput, atAbort, notRank>>

\* the awaited call has returned: the score is computed, the entry replaced
\* and the list put on screen
CycleResumes ==
    /\ ~ranked
    /\ probeCount = consumed + 1
    /\ DOMAIN probes = {}
    /\ probeEvent.op = "testPlaySource"
    /\ LET updated == [currentResults EXCEPT
                          ![cycleIndex] = Measured(@, probeEvent.result)]
       IN  currentResults' = updated /\ searchResults' = updated
    /\ cycleIndex' = cycleIndex + 1
    /\ consumed' = consumed + 1
    /\ UNCHANGED <<sortedResults, rankInput, ranked, aborted, cycleInput, atAbort,
                   notRank>>

\* after the loop: sortSourcesByScore(currentResults), currentResults.sort(...)
\* in place and setSearchResults
CycleFinishes ==
    /\ ~ranked
    /\ cycleIndex > Len(currentResults)
    /\ ranked' = TRUE
    /\ rankInput' = currentResults
    /\ sortedResults' = SortSourcesByScore(currentResults)
    /\ LET sortedSearchResults == SortByScore(currentResults)
       IN  currentResults' = sortedSearchResults /\ searchResults' = sortedSearchResults
    /\ UNCHANGED <<cycleIndex, consumed, aborted, cycleInput, atAbort, notRank>>

\* controllerRef.current.abort(): handlePlay, or the clean-up of the effect
CycleAborts ==
    /\ ~aborted
    /\ aborted' = TRUE
    /\ atAbort' = [list |-> currentResults,
                   index |-> IF ranked THEN Len(currentResults) + 1 ELSE cycleIndex,
                   inFlight |-> DOMAIN probes # {}]
    /\ UNCHANGED <<searchResults, sortedResults, rankInput, ranked, currentResults,
                   cycleIndex, consumed, cycleInput, notRank>>

\* mutant: the signal is not handed to fetch
SettlesUnsignalled(ok) == TRUE

\* fetch(url, { signal: combinedSignal }): once the signal has fired the
\* request rejects, whether it was under way or is only now made
Settles(ok) == aborted => ~ok

\* the effect of the detail screen has started fetchDetailData: the list is
\* emptied, and the performSpeedTests the effect will call is the one of the
\* render the effect was made in, whose searchResults (kept in cycleInput) is
\* the list of that render: empty at mount, the list of the previous query
\* when the effect runs again.  cycleIndex 0: the run has not started
DiscoveryInit ==
    /\ searchResults = <<>>
    /\ currentResults = <<>>
    /\ cycleInput \in CycleLists
    /\ sortedResults = <<>>
    /\ rankInput = <<>>
    /\ ranked = FALSE
    /\ cycleIndex = 0
    /\ consumed = 0
    /\ aborted = FALSE
    /\ atAbort = NotAborted

\* fetchDetailData from its searches to its call of performSpeedTests: every
\* source of found has been appended with setSearchResults(prev => [...prev,
\* r]), and performSpeedTests copies the searchResults of its own render
FetchDetailData(found) ==
    /\ cycleIndex = 0
    /\ found # <<>>
    /\ searchResults' = found
    /\ currentResults' = cycleInput
    /\ cycleIndex' = 1
    /\ UNCHANGED <<sortedResults, rankInput, ranked, consumed, aborted, cycleInput,
                   atAbort, notRank>>

CycleNext ==
    \/ CycleCalls
    \/ CycleSkips
    \/ CycleResumes
    \/ CycleFinishes
    \/ CycleAborts
    \/ \E id \in DOMAIN probes, ok \in BOOLEAN : Settles(ok) /\ LatencyResolves(id, ok)
    \/ \E id \in DOMAIN probes, ok \in BOOLEAN, kb \in BodySizesKB :
          Settles(ok) /\ DownloadResolves(id, ok, kb)
    \/ \E id \in DOMAIN probes : TestPlaySourceReturns(id)
    \/ NetworkDelay

(***************************************************************************)
(* Specifications.  The player store's claims are checked on restrictions  *)
(* of SessionNext to the operations each is about.                         *)
(***************************************************************************)
InitSession == SessionInit /\ ProbeInit /\ ScoreIdle /\ RankIdle /\ FilterIdle /\ WatchInit /\ UrlInit

InitPersist == HistInit /\ ProbeInit /\ ScoreIdle /\ RankIdle /\ FilterIdle /\ WatchInit /\ UrlInit

\* the player store idle, nothing stored for the content
IdleStore == StoreInit /\ histOn = FALSE /\ playRecord = NoRecord

InitProbe == IdleStore /\ ProbeInit /\ ScoreIdle /\ RankIdle /\ FilterIdle /\ WatchInit /\ UrlInit

InitScore == IdleStore /\ ProbeInit /\ ScoreInit /\ RankIdle /\ FilterIdle /\ WatchInit /\ UrlInit

InitRank == IdleStore /\ ProbeInit /\ ScoreIdle /\ RankInit /\ FilterIdle /\ WatchInit /\ UrlInit

SessionSpec == InitSession /\ [][SessionNext]_vars

SpecLoad == InitSession /\ [][LoadNext]_vars

SpecPlayback == InitSession /\ [][PlaybackNext]_vars

SpecPersist == InitPersist /\ [][PersistNext]_vars

SpecSkipPoints == InitSession /\ [][SkipPointNext]_vars

SpecNearEnd == InitSession /\ [][NearEndNext]_vars

SpecSeek == InitSession /\ [][SeekNext]_vars

\* a timer that is due fires, and time passes while a timer is pending
SpecResume == InitSession /\ [][ResumeNext]_vars

SpecOutro == InitSession /\ [][OutroNext]_vars

SpecUrl == InitSession /\ [][UrlNext]_vars

SpecSeekFair ==
    /\ SpecSeek
    /\ WF_vars(SeekTimerFires)
    /\ WF_vars(\E d \in {SeekSettleMs \div 2, SeekSettleMs} : Advance(d))

SpecWatchdog == InitSession /\ [][WatchNext]_vars

\* the effect runs after the render, a timer that is due fires, and time
\* passes
SpecWatchdogFair ==
    /\ SpecWatchdog
    /\ WF_vars(WatchdogEffect)
    /\ WF_vars(WatchdogFires)
    /\ WF_vars(WatchTimePasses(WatchdogMs \div 2))

SpecProbe == InitProbe /\ [][ProbeNext]_vars

SpecScore == InitScore /\ [][ScoreNext]_vars

SpecRank == InitRank /\ [][RankNext]_vars

InitFilter == IdleStore /\ ProbeInit /\ ScoreIdle /\ RankIdle /\ FilterInit /\ WatchInit /\ UrlInit

SpecFilter == InitFilter /\ [][FilterNext]_vars

InitCycle == IdleStore /\ ProbeInit /\ ScoreIdle /\ CycleInit /\ FilterIdle /\ WatchInit /\ UrlInit

SpecCycle == InitCycle /\ [][CycleNext]_vars

\* discovery, then the run it starts
DiscoveryNext ==
    \/ \E found \in CycleLists : FetchDetailData(found)
    \/ cycleIndex >= 1 /\ CycleCalls
    \/ cycleIndex >= 1 /\ CycleSkips
    \/ cycleIndex >= 1 /\ CycleResumes
    \/ cycleIndex >= 1 /\ CycleFinishes
    \/ cycleIndex >= 1 /\ CycleAborts
    \/ \E id \in DOMAIN probes, ok \in BOOLEAN : Settles(ok) /\ LatencyResolves(id, ok)
    \/ \E id \in DOMAIN probes, ok \in BOOLEAN, kb \in BodySizesKB :
          Settles(ok) /\ DownloadResolves(id, ok, kb)
    \/ \E id \in DOMAIN probes : TestPlaySourceReturns(id)
    \/ NetworkDelay

InitDiscovery == IdleStore /\ ProbeInit /\ ScoreIdle /\ DiscoveryInit /\ FilterIdle /\ WatchInit /\ UrlInit

SpecDiscovery == InitDiscovery /\ [][DiscoveryNext]_vars

(***************************************************************************)
(* Claims about the playback session.                                      *)
(***************************************************************************)
\* the engine calls of a step that are seeks
SeeksOf(calls) == SelectSeq(calls, LAMBDA c : c[1] = "seek")

\* introEndMillis ?? 0
IntroOrZero == IF introEndTime = Undefined THEN 0 ELSE introEndTime

\* C1 as stated: after loadVideo has installed a session, handleLoad with a
\* mounted handle and a resume position or intro end point set issues exactly
\* one engine seek, to max(initialPosition, introEndTime ?? 0) milliseconds.
C1_SeekToLater ==
    [][(/\ lastOp' = "handleLoad"
        /\ episodes # <<>>
        /\ HasHandle
        /\ (initialPosition # 0 \/ IntroOrZero # 0))
       => SeeksOf(engineCalls') =
            << <<"seek", Max(initialPosition, IntroOrZero), 1000>> >>]_vars

\* C1 amended: in that case (a resume position or an intro end point greater
\* than zero) exactly one engine seek is issued, to the resume position when it
\* is greater than zero and to the intro end point otherwise; the resume
\* position wins even when the intro end point is later.
C1_SeekToResumeElseIntro ==
    [][(/\ lastOp' = "handleLoad"
        /\ episodes # <<>>
        /\ HasHandle
        /\ initialPosition >= 0
        /\ (initialPosition > 0 \/ IntroOrZero > 0))
       => SeeksOf(engineCalls') =
            << <<"seek", IF initialPosition > 0 THEN initialPosition ELSE IntroOrZero,
                 1000>> >>]_vars

\* C1 witness: a loaded session whose intro end point (1500) is later than its
\* non-zero resume position (1000); handleLoad has sought to the resume position.
C1_Witness ==
    /\ lastOp = "handleLoad"
    /\ episodes # <<>>
    /\ HasHandle
    /\ initialPosition > 0
    /\ introEndTime > initialPosition
    /\ engineCalls = << <<"seek", initialPosition, 1000>> >>

\* C2 as stated: a progress update with an outro offset configured, position >=
\* duration - offset and a next episode advances currentEpisodeIndex by one,
\* writes nothing, and changes neither the near-end flag nor the status.
C2_OutroSkip ==
    [][\A p \in Positions, d \in Durations :
         (/\ HandlePlaybackStatusUpdate(p, d)
          /\ outroStartTime # Undefined /\ outroStartTime # 0
          /\ p >= d - outroStartTime
          /\ currentEpisodeIndex + 1 < Len(episodes))
         => /\ currentEpisodeIndex' = currentEpisodeIndex + 1
            /\ saved' = <<>>
            /\ playRecord' = playRecord
            /\ showNextEpisodeOverlay' = showNextEpisodeOverlay
            /\ status' = status]_vars

\* C2 amended: the same for an update whose duration is not zero (an update with
\* duration 0 never triggers the outro skip).
C2_OutroSkipKnownDuration ==
    [][\A p \in Positions, d \in Durations :
         (/\ HandlePlaybackStatusUpdate(p, d)
          /\ outroStartTime # Undefined /\ outroStartTime # 0
          /\ d # 0
          /\ p >= d - outroStartTime
          /\ currentEpisodeIndex + 1 < Len(episodes))
         => /\ currentEpisodeIndex' = currentEpisodeIndex + 1
            /\ saved' = <<>>
            /\ playRecord' = playRecord
            /\ showNextEpisodeOverlay' = showNextEpisodeOverlay
            /\ status' = status]_vars

\* C2 witness: the outro skip has moved a loaded session (outro offset 500,
\* throttle flag clear, so a save was possible) to the second episode while the
\* status still is the one handleLoad set.
C2_Witness ==
    /\ lastOp = "handlePlaybackStatusUpdate"
    /\ outroStartTime = 500
    /\ currentEpisodeIndex = 1
    /\ status.isLoaded /\ ~status.isPlaying /\ status.durationMillis = 10000
    /\ detail
    /\ ~isRecordSaveThrottled
    /\ saved = <<>>

\* C3 as stated: in any session state two non-immediate _savePlayRecord calls
\* made within 10 s of each other result in exactly one store write, and a call
\* with immediate set always writes, whatever the throttle flag is.
C3_ExactlyOneWrite ==
    [][/\ (saveHist'.n = 2 /\ saveHist'.gap < ThrottleMs)
           => (saveHist'.w1 # saveHist'.w2)
       /\ SavePlayRecordCall(TRUE) => Len(saved') = 1]_vars

\* C3 amended: two non-immediate calls within 10 s of each other result in at
\* most one store write, and in exactly one when the first of them found the
\* throttle flag clear, detail present and the status loaded; a call with
\* immediate set writes whatever the throttle flag is whenever detail is
\* present and the status is loaded, and leaves the flag as it was.
C3_AtMostOneWrite ==
    [][/\ (saveHist'.n = 2 /\ saveHist'.gap < ThrottleMs)
           => /\ ~(saveHist'.w1 /\ saveHist'.w2)
              /\ (~saveHist'.t1 /\ saveHist'.l1)
                    => (saveHist'.w1 /\ ~saveHist'.w2)
       /\ (SavePlayRecordCall(TRUE) /\ detail /\ status.isLoaded)
           => /\ Len(saved') = 1
              /\ isRecordSaveThrottled' = isRecordSaveThrottled]_vars

\* C3 witness: two non-immediate calls 5 s apart, the first wrote and the
\* second found the flag set and did not; an immediate call made after them,
\* with the flag still set, has written.
C3_Witness ==
    /\ saveHist.n = 2 /\ saveHist.gap = 5000
    /\ ~saveHist.t1 /\ saveHist.w1
    /\ saveHist.t2 /\ saveHist.l2 /\ ~saveHist.w2
    /\ lastOp = "_savePlayRecord"
    /\ isRecordSaveThrottled
    /\ Len(saved) = 1

(***************************************************************************)
(* Claims about the probe cache.                                           *)
(***************************************************************************)
\* C4: a testPlaySource call for a URL made less than CACHE_DURATION after a
\* call for the same URL stored its result returns that call's result and
\* issues no request: it starts no measurement and leaves the cache alone.
C4_CacheHit ==
    [][\A u \in Urls :
         (/\ TestPlaySourceStart(u)
          /\ speedTestCache[u].present
          /\ now - speedTestCache[u].timestamp < 600000)
         => /\ probeEvent'.op = "testPlaySource"
            /\ probeEvent'.url = u
            /\ probeEvent'.hit
            /\ probeEvent'.fetches = 0
            /\ probeEvent'.result = probed[u]
            /\ probes' = probes
            /\ speedTestCache' = speedTestCache]_vars

\* C4 witness: a call made 100 ms short of ten minutes after the first one
\* stored an available result has returned that result without a request.
C4_Witness ==
    /\ probeEvent.op = "testPlaySource"
    /\ probeEvent.hit
    /\ probeEvent.fetches = 0
    /\ probeEvent.result.isAvailable
    /\ probeEvent.result = probed[probeEvent.url]
    /\ now - speedTestCache[probeEvent.url].timestamp = 599900
    /\ probes = <<>>

\* C5: a testPlaySource call that finds an entry of age CACHE_DURATION or more
\* starts a fresh measurement (at least one request) and leaves the entry in
\* place; when a measuring call returns, the entry of its URL holds the result
\* it returns and the current time; and the cache changes in no other step
\* than a returning call or clearSpeedTestCache, so the passing of time removes
\* nothing.
C5_ExpiredEntryReprobed ==
    [][/\ \A u \in Urls :
            (/\ TestPlaySourceStart(u)
             /\ speedTestCache[u].present
             /\ now - speedTestCache[u].timestamp >= 600000)
            => /\ probeEvent'.op = "testPlaySourceStart"
               /\ \E id \in DOMAIN probes' \ DOMAIN probes :
                     /\ probes'[id].url = u
                     /\ probes'[id].fetches >= 1
               /\ speedTestCache' = speedTestCache
       /\ \A id \in DOMAIN probes :
            TestPlaySourceReturns(id)
            => /\ ~probeEvent'.hit
               /\ speedTestCache'[probes[id].url] =
                     [present |-> TRUE, result |-> probeEvent'.result,
                      timestamp |-> now']
       /\ (speedTestCache' # speedTestCache)
            => probeEvent'.op \in {"testPlaySource", "clearSpeedTestCache"}]_vars

\* C5 witness: a call that found an entry too old has measured again (two
\* requests) and returned; the entry now holds its result and the current time,
\* ten minutes or more after the start.
C5_Witness ==
    /\ probeEvent.op = "testPlaySource"
    /\ ~probeEvent.hit
    /\ probeEvent.stale
    /\ probeEvent.fetches = 2
    /\ now >= 600000
    /\ speedTestCache[probeEvent.url] =
          [present |-> TRUE, result |-> probeEvent.result, timestamp |-> now]

(***************************************************************************)
(* Claims about the score.                                                 *)
(***************************************************************************)
\* C6 as stated: for every input the score is 0 if and only if the probe is not
\* available, so every probe flagged available scores more than 0.
C6_ZeroIffUnavailable ==
    score # NotScored => ((score = 0) <=> ~scoreArgs.isAvailable)

\* C6 amended: the score is 0 if and only if the probe is not available or its
\* latency is negative; every probe flagged available with a latency of 0 or
\* more scores at least 10.
C6_ZeroIffUnusable ==
    score # NotScored
    => /\ (score = 0) <=> (~scoreArgs.isAvailable \/ scoreArgs.latency < 0)
       /\ (scoreArgs.isAvailable /\ scoreArgs.latency >= 0) => score >= 1000

\* C6 witness: a probe flagged available with latency -1 has scored 0.
C6_Witness ==
    /\ score = 0
    /\ scoreArgs.isAvailable
    /\ scoreArgs.latency = -1
    /\ scoreArgs.downloadSpeed = 1000

C8_Resolution(r) ==
    IF r = Label(<<"2", "1", "6", "0", "p">>) THEN 4000
    ELSE IF r = Label(<<"1", "4", "4", "0", "p">>) THEN 3500
    ELSE IF r = Label(<<"1", "0", "8", "0", "p">>) THEN 3000
    ELSE IF r = Label(<<"7", "2", "0", "p">>) THEN 2500
    ELSE IF r = Label(<<"4", "8", "0", "p">>) THEN 1500
    ELSE 1000

C8_Episodes(n) == IF n * 50 <= 2000 THEN n * 50 ELSE 2000

C8_Throughput(d) ==
    CASE d >= 1000 -> 2500
      [] d >= 500 /\ d < 1000 -> 2000
      [] d >= 200 /\ d < 500 -> 1500
      [] d >= 100 /\ d < 200 -> 1000
      [] d >= 50 /\ d < 100 -> 500
      [] OTHER -> 0

C8_Latency(l) ==
    CASE l <= 100 -> 1500
      [] l > 100 /\ l <= 300 -> 1200
      [] l > 300 /\ l <= 500 -> 800
      [] l > 500 /\ l <= 1000 -> 500
      [] l > 1000 /\ l <= 2000 -> 200
      [] OTHER -> 0

C8_Sum ==
    C8_Resolution(scoreArgs.resolution) + C8_Episodes(scoreArgs.episodeCount)
    + C8_Throughput(scoreArgs.downloadSpeed) + C8_Latency(scoreArgs.latency)

C9_ScoreInRange ==
    [][CalculateScore
       => /\ (/\ scoreArgs.latency >= 0
               /\ scoreArgs.downloadSpeed >= 0
               /\ scoreArgs.episodeCount >= 0)
              => (score' >= 0 /\ score' <= 10000)
          /\ UNCHANGED <<scoreArgs, probeVars, sessionVars, rankVars>>]_vars

\* C9 witness: more episodes than the cap counts (41) with every other band at
\* its top have scored 100.
C9_Witness ==
    /\ scoreArgs.episodeCount = 41
    /\ scoreArgs.latency = 0
    /\ scoreArgs.downloadSpeed = 1000
    /\ scoreArgs.isAvailable
    /\ score = 10000

(***************************************************************************)
(* Claims about the ranking.                                               *)
(***************************************************************************)
\* where the source with this key was in the list before the ranking
C10_Index(key) == CHOOSE i \in 1..Len(rankInput) : rankInput[i].source = key

\* out holds the sources of the input, scores never increasing, equal scores
\* in the order of the input
C10_Ordered(out) ==
    /\ Len(out) = Len(rankInput)
    /\ {out[i].source : i \in 1..Len(out)}
         = {rankInput[i].source : i \in 1..Len(rankInput)}
    /\ \A i, j \in 1..Len(out) :
         i < j => /\ out[i].score >= out[j].score
                  /\ out[i].score = out[j].score
                       => C10_Index(out[i].source) < C10_Index(out[j].source)

\* C10: what sortSourcesByScore returns and the list performSpeedTests puts on
\* screen are sorted by score, highest first, and two sources with equal score
\* keep the order they had in the input.
C10_SortedStable ==
    ranked => (C10_Ordered(sortedResults) /\ C10_Ordered(searchResults))

\* C10 witness: two sources with equal score followed by a better one have
\* been ranked: the better one first, the two in their old order.
C10_Witness ==
    /\ ranked
    /\ Len(rankInput) = 3
    /\ rankInput[1].score = rankInput[2].score
    /\ rankInput[1].score > 0
    /\ rankInput[3].score > rankInput[1].score
    /\ [i \in 1..3 |-> searchResults[i].source] = <<"s3", "s1", "s2">>
    /\ [i \in 1..3 |-> sortedResults[i].source] = <<"s3", "s1", "s2">>
    /\ sortedResults[2].score = sortedResults[3].score

(***************************************************************************)
(* Claims about loading a session.                                         *)
(***************************************************************************)
\* C16 as stated: when loadVideo has read the play record, initialPosition is
\* position * 1000 whenever a position was given, a given 0 included,
\* otherwise the record's play_time * 1000 when a record exists, otherwise 0.
C16_GivenResumeWins ==
    [][\A l \in pendingLoads :
         LoadVideoDone(l)
         => initialPosition' =
              IF l.position # Undefined THEN l.position * 1000
              ELSE IF playRecord.exists THEN playRecord.play_time * 1000
              ELSE 0]_vars

\* C17 as stated: when reading the play record fails the load still completes:
\* the store leaves loading with the requested episode list and episode index
\* installed and with resume 0 or the given resume position.
C17_FailedReadStillLoads ==
    [][\A l \in pendingLoads :
         LoadVideoFailed(l)
         => /\ ~isLoading'
            /\ episodes' = l.episodes
            /\ currentEpisodeIndex' = l.episodeIndex
            /\ initialPosition' = ResumeMillis(l.position)]_vars

\* C18 as stated: a loadVideo call superseded by a newer one aborts, so once
\* no play-record read is outstanding and a read has completed, the episode
\* list, the episode index and the resume position are those of the newest
\* call, in whatever order the reads completed.
C18_NewestLoadWins ==
    (pendingLoads = {} /\ lastOp = "loadVideoDone")
    => /\ episodes = latestLoad.episodes
       /\ currentEpisodeIndex = latestLoad.episodeIndex
       /\ initialPosition = InitialPositionOf(latestLoad.position, playRecord)

(***************************************************************************)
(* Claims about the playlist filter.                                       *)
(***************************************************************************)
\* C12 as stated: whatever the manifest and the options, the result of
\* filterM3U8 has removedSegments equal to the number of parsed segments less
\* the number of surviving ones, which is not negative, and a filteredDuration
\* that is at most its totalDuration.
C12_CountsAndDurations ==
    filterEvent.op = "filterM3U8"
    => LET r == filterEvent.result
       IN  /\ ~filterEvent.hit /\ filterEvent.outcome.kind = "response"
              => r.removedSegments =
                   Len(filterEvent.segments) - Len(filterEvent.filteredSegments)
           /\ r.removedSegments >= 0
           /\ ~r.filteredDuration.nan
           /\ ~r.totalDuration.nan
           /\ r.filteredDuration.value <= r.totalDuration.value

\* C13: with ad removal on, the surviving segments are the parsed segments, in
\* their order, that are neither shorter than the minimum duration nor have a
\* URI holding one of the ad patterns, letter case apart; in the playlist of
\* five segments whose third lasts 1.2 s and whose fifth lies under /ads/,
\* three survive and removedSegments is 2.
C13_DroppedIffShortOrAd ==
    (/\ filterEvent.op = "filterM3U8"
     /\ ~filterEvent.hit
     /\ filterEvent.outcome.kind = "response"
     /\ filterEvent.options.removeAds)
    => LET segs == filterEvent.segments
           kept == filterEvent.filteredSegments
           pats == filterEvent.options.adPatterns
           min  == 1000 * filterEvent.options.minSegmentDuration
           Holds(uri, pat) ==
               \E k \in 0..(Len(uri) - Len(pat)) :
                   \A j \in 1..Len(pat) : uri[k + j] = pat[j]
           Dropped(i) ==
               \/ ~segs[i].duration.nan /\ segs[i].duration.value < min
               \/ \E p \in 1..Len(pats) :
                     Holds(LowerChars(segs[i].uri), LowerChars(pats[p]))
           K == {i \in 1..Len(segs) : ~Dropped(i)}
       IN  /\ Len(kept) = Cardinality(K)
           /\ \A i \in K : kept[Cardinality({j \in K : j <= i})] = segs[i]
           /\ (/\ filterEvent.outcome.body = ExamplePlaylist
               /\ min = 3000
               /\ pats = DEFAULT_AD_PATTERNS)
              => /\ Len(segs) = 5
                 /\ Len(kept) = 3
                 /\ filterEvent.result.removedSegments = 2

\* the five-segment playlist has been filtered with the play screen's options
C13_Witness ==
    /\ filterEvent.op = "filterM3U8"
    /\ ~filterEvent.hit
    /\ filterEvent.outcome.body = ExamplePlaylist
    /\ filterEvent.options.removeAds
    /\ filterEvent.options.minSegmentDuration = 3
    /\ filterEvent.options.adPatterns = DEFAULT_AD_PATTERNS
    /\ filterEvent.result.removedSegments = 2

\* C14 as stated: when the request for the manifest fails, by a network error
\* or by a response that is not successful, or its body cannot be had,
\* filterM3U8 returns filteredUrl equal to originalUrl and removedSegments 0.
C14_FailurePassesThrough ==
    (/\ filterEvent.op = "filterM3U8"
     /\ ~filterEvent.hit
     /\ \/ filterEvent.outcome.kind \in {"reject", "textReject"}
        \/ ~filterEvent.outcome.ok)
    => /\ filterEvent.result.filteredUrl = filterEvent.result.originalUrl
       /\ filterEvent.result.removedSegments = 0

\* C15 as stated: a result of filterM3U8 whose filteredUrl is the original URL
\* reports no removed segments.
C15_UnpublishedReportsNothing ==
    (/\ filterEvent.op = "filterM3U8"
     /\ filterEvent.result.filteredUrl = filterEvent.result.originalUrl)
    => filterEvent.result.removedSegments = 0

(***************************************************************************)
(* Claims about the ranking cycle.                                         *)
(***************************************************************************)
\* C11 as stated: whichever probes fail, when the cycle ends both the list on
\* screen and the output of sortSourcesByScore hold one entry for each source
\* of the input, every unavailable source has score 0 and stands after every
\* available one, and every available source has the score computed from its
\* own probe result.
C11_FailedProbesRankLast ==
    ranked
    => /\ Len(searchResults) = Len(cycleInput)
       /\ Len(sortedResults) = Len(cycleInput)
       /\ \A k \in 1..Len(cycleInput) :
             /\ Cardinality({i \in 1..Len(searchResults) :
                               searchResults[i].source = cycleInput[k].source}) = 1
             /\ Cardinality({i \in 1..Len(sortedResults) :
                               sortedResults[i].source = cycleInput[k].source}) = 1
       /\ \A i \in 1..Len(searchResults) :
             IF searchResults[i].isAvailable = "false"
                THEN /\ searchResults[i].score = 0
                     /\ \A j \in 1..Len(searchResults) :
                           searchResults[j].isAvailable = "true" => j < i
                ELSE searchResults[i].score =
                       CalculateSourceScore(searchResults[i].latency,
                                            searchResults[i].downloadSpeed,
                                            searchResults[i].resolution,
                                            searchResults[i].episodes, TRUE)
       /\ \A i \in 1..Len(sortedResults) :
             IF ~sortedResults[i].isAvailable
                THEN /\ sortedResults[i].score = 0
                     /\ \A j \in 1..Len(sortedResults) :
                           sortedResults[j].isAvailable => j < i
                ELSE \E k \in 1..Len(searchResults) :
                        /\ searchResults[k].source = sortedResults[i].source
                        /\ searchResults[k].score = sortedResults[i].score

C20_Remaining ==
    LET n == Len(currentResults)
        sources == IF cycleIndex > n THEN 0 ELSE n - cycleIndex + 1
        requests == Cardinality({id \in DOMAIN probes : probes[id].latency = Pending})
                    + Cardinality({id \in DOMAIN probes :
                                      probes[id].downloadSpeed = Pending})
        wait == IF \A id \in DOMAIN probes : now - probes[id].start < NetworkDelayMs
                   THEN 1 ELSE 0
        call == IF DOMAIN probes # {} THEN requests + wait + 2
                ELSE IF probeCount = consumed + 1 THEN 1
                ELSE 6
    IN  7 * sources + call + (IF ranked THEN 0 ELSE 1)

\* a step of the cycle can be taken: a call or a skip at a source, a request
\* settling or the call returning, the loop resuming, the ranking
C20_CanStep ==
    \/ AtSource /\ (currentResults[cycleIndex].episodes = 0 \/ probeCount < MaxProbes)
    \/ DOMAIN probes # {}
    \/ probeCount = consumed + 1 /\ probeEvent.op = "testPlaySource"
    \/ ~ranked /\ cycleIndex > Len(currentResults)

\* C20: once the signal of the cycle has fired, every request of a probe
\* under way settles as a failure; the entries of the sources whose results
\* had been taken before stay in the list as they were; and the cycle comes
\* to its end: until it has ranked the list a step of it can always be taken,
\* and every step of it brings the end nearer.
C20_AbortEndsCycle ==
    /\ [][aborted
          => \A id \in DOMAIN probes \cap DOMAIN probes' :
                /\ probes[id].latency = Pending
                   => probes'[id].latency \in {Pending, Infinity}
                /\ probes[id].downloadSpeed = Pending
                   => probes'[id].downloadSpeed \in {Pending, 0}]_vars
    /\ [](aborted
          => \A i \in 1..(atAbort.index - 1) :
                \E j \in 1..Len(currentResults) : currentResults[j] = atAbort.list[i])
    /\ [](~ranked => C20_CanStep)
    /\ [](C20_Remaining >= 0)
    /\ [][aborted' = aborted => C20_Remaining' < C20_Remaining]_vars

\* the signal fired while a probe was under way and after the result of an
\* earlier source had been taken, and the cycle has ended
C20_Witness ==
    /\ aborted
    /\ ranked
    /\ atAbort.inFlight
    /\ \E i \in 1..(atAbort.index - 1) : atAbort.list[i].episodes > 0

(***************************************************************************)
(* Claims about the skip points, reset, the load watchdog and the seek     *)
(* timer.                                                                  *)
(***************************************************************************)
\* C21: in a loaded session setIntroEndTime and setOutroStartTime are toggles
\* at every playback position: a point that is unset becomes the current
\* position (intro) or duration - position (outro), a point that is set is
\* cleared; each call hands exactly one record to the store, whatever the
\* throttle flag is, and leaves the throttle flag as it was.  The outro is
\* read for a status whose duration is known, the case the claim's
\* duration - position speaks of.
C21_SkipPointsToggle ==
    [][(status.isLoaded /\ detail)
       => /\ lastOp' = "setIntroEndTime"
             => /\ introEndTime' = (IF introEndTime = Undefined
                                       THEN status.positionMillis ELSE Undefined)
                /\ Len(saved') = 1
                /\ isRecordSaveThrottled' = isRecordSaveThrottled
          /\ (lastOp' = "setOutroStartTime" /\ status.durationMillis # 0)
             => /\ outroStartTime' = (IF outroStartTime = Undefined
                                         THEN status.durationMillis - status.positionMillis
                                         ELSE Undefined)
                /\ Len(saved') = 1
                /\ isRecordSaveThrottled' = isRecordSaveThrottled]_vars

\* C22: after reset every session field of the store has its initial value
\* (episodes, currentEpisodeIndex, status, isLoading, isSeeking and
\* seekPosition, progressPosition, initialPosition, introEndTime and
\* outroStartTime, showNextEpisodeOverlay, _isRecordSaveThrottled), and reset
\* hands nothing to the store.
C22_ResetRestoresInitial ==
    [][lastOp' = "reset"
       => /\ episodes' = <<>>
          /\ currentEpisodeIndex' = -1
          /\ status' = NullStatus
          /\ isLoading' = TRUE
          /\ isSeeking' = FALSE
          /\ seekPosition' = <<0, 1>>
          /\ progressPosition' = <<0, 1>>
          /\ initialPosition' = 0
          /\ introEndTime' = Undefined
          /\ outroStartTime' = Undefined
          /\ showNextEpisodeOverlay' = FALSE
          /\ isRecordSaveThrottled' = FALSE
          /\ saved' = <<>>
          /\ playRecord' = playRecord]_vars

\* C23: while the session is loading the watchdog's timer is pending and is
\* never set back, so it is due when isLoading has been true for 60 s; when
\* it fires with isLoading still true it sets isLoading false and shows the
\* timeout toast; and the session never stays loading forever.
C23_WatchdogEndsLoading ==
    /\ []((isLoading /\ Rendered) => watchdogTimer \in 0..WatchdogMs)
    /\ [][(isLoading /\ isLoading' /\ watchdogTimer # Undefined
                                   /\ watchdogTimer' # Undefined)
          => watchdogTimer' <= watchdogTimer]_vars
    /\ [][(lastOp' = "watchdog" /\ isLoading)
          => (~isLoading' /\ toast' = "timeout")]_vars
    /\ (isLoading ~> ~isLoading)

\* the watchdog has just forced the session out of loading
C23_Witness ==
    /\ lastOp = "watchdog"
    /\ ~isLoading
    /\ toast = "timeout"
    /\ watchdogTimer = Undefined

C25_StatsAndClear ==
    [][LET stored(cache) == {u \in Urls : cache[u].present}
           young(cache, t) == {u \in stored(cache) : t - cache[u].timestamp < 600000}
       IN  /\ GetSpeedTestCacheStats
              => /\ probeEvent'.stats.totalEntries = Cardinality(stored(speedTestCache))
                 /\ probeEvent'.stats.validEntries =
                       Cardinality(young(speedTestCache, now))
                 /\ probeEvent'.stats.expiredEntries =
                       Cardinality(stored(speedTestCache))
                         - Cardinality(young(speedTestCache, now))
                 /\ speedTestCache' = speedTestCache
           /\ ClearSpeedTestCache => stored(speedTestCache') = {}
           /\ (probeEvent.op = "clearSpeedTestCache" /\ GetSpeedTestCacheStats)
              => probeEvent'.stats =
                    [totalEntries |-> 0, validEntries |-> 0, expiredEntries |-> 0]
           /\ \A u \in Urls :
                 (probeEvent.op = "clearSpeedTestCache" /\ TestPlaySourceStart(u))
                 => /\ probeEvent'.op = "testPlaySourceStart"
                    /\ \E id \in DOMAIN probes' \ DOMAIN probes :
                          /\ probes'[id].url = u
                          /\ probes'[id].fetches >= 1]_vars

\* the statistics have been taken with one entry ten minutes old and one
\* younger
C25_Witness ==
    /\ probeEvent.op = "getSpeedTestCacheStats"
    /\ probeEvent.stats = [totalEntries |-> 2, validEntries |-> 1, expiredEntries |-> 1]
    /\ \E u \in Urls : speedTestCache[u].present
                        /\ now - speedTestCache[u].timestamp = 600000

(***************************************************************************)
(* Claims about the throttle, the near-end flag, seeking and the player    *)
(* handle.                                                                 *)
(***************************************************************************)
\* a progress update that reaches its _savePlayRecord() call: the detail is
\* there, the duration is known and the update does not skip the outro
C26_ProgressSaveCall ==
    /\ detail
    /\ \E p \in Positions, d \in Durations \ {0} :
          /\ HandlePlaybackStatusUpdate(p, d)
          /\ ~(/\ OutroReached(outroStartTime, p, d)
               /\ HasNextEpisode(currentEpisodeIndex, episodes))

\* C26 as stated: a non-immediate save is dropped whenever any save, immediate
\* or not, happened in the 10 s before it; so the save of a progress update
\* that directly follows the immediate save of a skip-point edit writes
\* nothing.
C26_AnySaveThrottles ==
    [][(/\ lastOp \in {"setIntroEndTime", "setOutroStartTime"}
        /\ Len(saved) = 1
        /\ C26_ProgressSaveCall)
       => saved' = <<>>]_vars

\* C26: a non-immediate save is dropped whenever a non-immediate call got past
\* the throttle check in the 10 s before it, written or not: the flag is set
\* exactly while the timer of such a call is pending, and a non-immediate call
\* that finds it set writes nothing.  An immediate save leaves flag and timer
\* alone, so the save of a progress update that directly follows the save of
\* a skip-point edit is dropped only if the flag was set already, and writes
\* otherwise.
C26_OnlyProgressSavesThrottle ==
    /\ [](/\ isRecordSaveThrottled <=> throttleTimers # {}
          /\ Cardinality(throttleTimers) <= 1
          /\ \A t \in throttleTimers : t \in 0..10000)
    /\ [][C26_ProgressSaveCall
          => /\ isRecordSaveThrottled => (saved' = <<>> /\ throttleTimers' = throttleTimers)
             /\ ~isRecordSaveThrottled
                => (isRecordSaveThrottled' /\ throttleTimers' = {10000})]_vars
    /\ [][lastOp' \in {"setIntroEndTime", "setOutroStartTime"}
          => /\ isRecordSaveThrottled' = isRecordSaveThrottled
             /\ throttleTimers' = throttleTimers]_vars
    /\ [][(/\ lastOp \in {"setIntroEndTime", "setOutroStartTime"}
           /\ Len(saved) = 1
           /\ C26_ProgressSaveCall)
          => ((saved' = <<>>) <=> isRecordSaveThrottled)]_vars

\* the save of a progress update has written, and has set the flag, with the
\* status as it was when the intro point was marked at 10 s: the record
\* carries the point and the position of the edit
C26_Witness ==
    /\ lastOp = "handlePlaybackStatusUpdate"
    /\ Len(saved) = 1
    /\ saved[1].introEndTime = 10000
    /\ saved[1].play_time = 10
    /\ isRecordSaveThrottled
    /\ throttleTimers = {10000}

\* C27 as stated, for a session whose detail is there: after a progress update
\* that does not skip the outro, showNextEpisodeOverlay is true exactly when
\* position / duration > 0.95 (Infinity for duration 0), a next episode exists
\* and no outro point is set; an update that skips the outro does not raise
\* the flag; and no update that was processed leaves the flag true with an
\* outro point set.
C27_NearEndFlag ==
    [][\A p \in Positions, d \in Durations :
         (/\ detail
          /\ lastOp' = "handlePlaybackStatusUpdate"
          /\ HandlePlaybackStatusUpdate(p, d))
         => LET skips == /\ outroStartTime \notin {Undefined, 0}
                         /\ d # 0
                         /\ p >= d - outroStartTime
                         /\ currentEpisodeIndex + 1 < Len(episodes)
            IN  /\ ~skips
                   => /\ showNextEpisodeOverlay'
                         <=> (/\ p * 100 > 95 * d
                              /\ currentEpisodeIndex + 1 < Len(episodes)
                              /\ outroStartTime \in {Undefined, 0})
                      /\ outroStartTime \notin {Undefined, 0}
                         => ~showNextEpisodeOverlay'
                /\ skips => (showNextEpisodeOverlay' => showNextEpisodeOverlay)]_vars

\* C27: the same for an update whose duration is not 0; an update with
\* duration 0 leaves the flag as it was.
C27_NearEndFlagKnownDuration ==
    [][\A p \in Positions, d \in Durations :
         (/\ detail
          /\ lastOp' = "handlePlaybackStatusUpdate"
          /\ HandlePlaybackStatusUpdate(p, d))
         => LET skips == /\ outroStartTime \notin {Undefined, 0}
                         /\ d # 0
                         /\ p >= d - outroStartTime
                         /\ currentEpisodeIndex + 1 < Len(episodes)
            IN  /\ (~skips /\ d # 0)
                   => /\ showNextEpisodeOverlay'
                         <=> (/\ p * 100 > 95 * d
                              /\ currentEpisodeIndex + 1 < Len(episodes)
                              /\ outroStartTime \in {Undefined, 0})
                      /\ outroStartTime \notin {Undefined, 0}
                         => ~showNextEpisodeOverlay'
                /\ d = 0 => showNextEpisodeOverlay' = showNextEpisodeOverlay
                /\ skips => (showNextEpisodeOverlay' => showNextEpisodeOverlay)]_vars

\* an update at the very end of an episode that has a successor, no outro
\* point set, has raised the flag
C27_Witness ==
    /\ lastOp = "handlePlaybackStatusUpdate"
    /\ showNextEpisodeOverlay
    /\ status.positionMillis = 10000
    /\ status.durationMillis = 10000
    /\ outroStartTime = Undefined
    /\ currentEpisodeIndex + 1 < Len(episodes)
    /\ detail

\* C28: seek sets isSeeking and seekPosition, hands the seek to the player
\* (when there is one) and arms the 500 ms timer in one step; isSeeking is set
\* exactly while that timer is pending, the timer runs down only with time and
\* is started afresh by every seek, and isSeeking is cleared by nothing but
\* the timer at 0, that is 500 ms after the latest seek; and once no more
\* seeks are made, isSeeking becomes false for good.
C28_SeekSettles ==
    /\ [][\A p \in Positions :
            Seek(p)
            => /\ isSeeking'
               /\ seekPosition' = <<p, IF status.durationMillis # 0
                                          THEN status.durationMillis ELSE 1>>
               /\ engineCalls' = (IF videoRef /\ videoCurrent
                                    THEN << <<"seek", p, 1000>> >> ELSE <<>>)
               /\ seekTimeout' = 500]_vars
    /\ [](isSeeking <=> seekTimeout # Undefined)
    /\ [](seekTimeout # Undefined => seekTimeout \in 0..500)
    /\ [][(isSeeking /\ ~isSeeking') => (seekTimeout = 0 /\ lastOp' = "seekTimer")]_vars
    /\ [][(seekTimeout # Undefined /\ seekTimeout' # Undefined /\ seekTimeout' # seekTimeout)
          => \/ lastOp' = "seek" /\ seekTimeout' = 500
             \/ lastOp' = "advance" /\ seekTimeout' < seekTimeout]_vars
    /\ (<>[][lastOp' # "seek"]_vars => <>[](~isSeeking))

\* a seek to 9.5 s of 10 s has settled: the target is in seekPosition and the
\* timer has cleared the flag
C28_Witness ==
    /\ lastOp = "seekTimer"
    /\ ~isSeeking
    /\ seekTimeout = Undefined
    /\ seekPosition = <<9500, 10000>>

\* C29: while there is no player handle (videoRef is null, or its current is
\* null) togglePlayPause, seek and handleLoad call nothing on the player; they
\* still do the rest of their work: seek sets isSeeking, handleLoad sets the
\* status and ends loading, togglePlayPause changes nothing.
C29_NoHandleNoCall ==
    [][(~(videoRef /\ videoCurrent)
        /\ lastOp' \in {"togglePlayPause", "seek", "handleLoad"})
       => /\ engineCalls' = <<>>
          /\ lastOp' = "seek" => (isSeeking' /\ seekTimeout' = 500)
          /\ lastOp' = "handleLoad" => (status'.isLoaded /\ ~isLoading')
          /\ lastOp' = "togglePlayPause" => status' = status]_vars

\* handleLoad has run with a resume position to jump to and a ref object
\* whose current is null, and has called nothing
C29_Witness ==
    /\ lastOp = "handleLoad"
    /\ videoRef
    /\ ~videoCurrent
    /\ initialPosition > 0
    /\ status.isLoaded
    /\ engineCalls = <<>>

\* the lines of a playlist that start with "#" and are no duration tag
C30_Directives(lines) ==
    SelectSeq(lines, LAMBDA line : ~line.lead /\ line.kind = "tag")

\* whether every entry of sub occurs in seq, in the order of sub
RECURSIVE C30_IsSubsequence(_, _)
C30_IsSubsequence(sub, seq) ==
    IF sub = <<>> THEN TRUE
    ELSE IF seq = <<>> THEN FALSE
    ELSE IF Head(sub) = Head(seq) THEN C30_IsSubsequence(Tail(sub), Tail(seq))
    ELSE C30_IsSubsequence(sub, Tail(seq))

\* the lines of a playlist before its first line that is neither blank nor
\* starts with "#"
C30_Head(lines) ==
    LET stops == {k \in 1..Len(lines) :
                     lines[k].kind = "uri" \/ (lines[k].lead /\ lines[k].kind # "blank")}
    IN  IF stops = {} THEN lines
        ELSE SubSeq(lines, 1, (CHOOSE k \in stops : \A j \in stops : k <= j) - 1)

\* a filterM3U8 call has returned a regenerated playlist made from a response
C30_Regenerated ==
    /\ filterEvent.op = "filterM3U8"
    /\ ~filterEvent.hit
    /\ filterEvent.outcome.kind = "response"
    /\ filterEvent.result.filteredUrl.scheme = "blob"

\* C30 as stated: the regenerated playlist holds every line of the original
\* manifest that starts with "#" and is no duration tag, in the original
\* order, whether the line stands before the first segment or between
\* segments.
C30_EveryDirectiveKept ==
    C30_Regenerated
    => C30_IsSubsequence(C30_Directives(filterEvent.outcome.body),
                         C30_Directives(filterEvent.result.filteredUrl.content))

\* C30, amended: the lines of the regenerated playlist that start with "#"
\* and are no duration tag are the lines of that kind of the original manifest
\* that stand before its first line that is neither blank nor starts with "#"
\* (in a well-formed manifest, its first segment URI), in the original order,
\* followed by the end marker; a line of that kind that stands after that
\* point is not carried over.
C30_HeadDirectivesKept ==
    C30_Regenerated
    => C30_Directives(filterEvent.result.filteredUrl.content)
         = C30_Directives(C30_Head(filterEvent.outcome.body))
             \o <<Line("tag", <<"#EXT-X-ENDLIST">>)>>

\* the playlist of two segments with a tag between them has been regenerated
\* with both segments kept: the two tags before the first segment are there,
\* the tag between the segments is not
C30_Witness ==
    /\ C30_Regenerated
    /\ filterEvent.outcome.body = DiscontinuityPlaylist
    /\ Len(filterEvent.filteredSegments) = 2
    /\ C30_Directives(filterEvent.result.filteredUrl.content)
         = <<Line("tag", <<"#EXTM3U">>), Line("tag", <<"#EXT-X-VERSION:3">>),
             Line("tag", <<"#EXT-X-ENDLIST">>)>>

\* C31: the lines of the regenerated playlist that are not tags are one
\* "#EXTINF:" line and one URI line per surviving segment, in the order the
\* segments have in the original manifest, the duration written with three
\* decimals; its last line is "#EXT-X-ENDLIST", whether or not the manifest
\* had one and also when no segment survives.
C31_PairsAndEndMarker ==
    (/\ filterEvent.op = "filterM3U8"
     /\ ~filterEvent.hit
     /\ filterEvent.outcome.kind = "response"
     /\ filterEvent.result.filteredUrl.scheme = "blob")
    => LET out   == filterEvent.result.filteredUrl.content
           kept  == filterEvent.filteredSegments
           pairs == SelectSeq(out, LAMBDA line : line.kind \in {"extinf", "uri"})
       IN  /\ Len(pairs) = 2 * Len(kept)
           /\ \A k \in 1..Len(kept) :
                 /\ pairs[2 * k - 1] = Line("extinf", ToFixed3(kept[k].duration) \o <<",">>)
                 /\ pairs[2 * k] = Line("uri", kept[k].uri)
           /\ \A k \in 1..(Len(out) - 1) : out[k].kind = "extinf" <=> out[k + 1].kind = "uri"
           /\ C30_IsSubsequence(kept, filterEvent.segments)
           /\ [k \in 1..Len(kept) |-> kept[k].uri]
                = [k \in 1..Len(kept) |-> ParseM3U8(out)[k].uri]
           /\ Len(ParseM3U8(out)) = Len(kept)
           /\ out # <<>>
           /\ out[Len(out)] = Line("tag", <<"#EXT-X-ENDLIST">>)

\* a manifest with a segment and no end marker has been regenerated with no
\* segment surviving: the result is its header and the end marker
C31_Witness ==
    /\ filterEvent.op = "filterM3U8"
    /\ ~filterEvent.hit
    /\ filterEvent.outcome.kind = "response"
    /\ filterEvent.segments # <<>>
    /\ filterEvent.filteredSegments = <<>>
    /\ \A k \in 1..Len(filterEvent.outcome.body) :
          filterEvent.outcome.body[k] # Line("tag", <<"#EXT-X-ENDLIST">>)
    /\ filterEvent.result.filteredUrl
         = BlobUrl(<<Line("tag", <<"#EXTM3U">>), Line("tag", <<"#EXT-X-ENDLIST">>)>>)

\* C32 as stated: when handlePlaybackStatusUpdate(position, duration) writes
\* a play record, the record holds the position and the duration of that
\* update, in whole seconds.
C32_SavedRecordIsOfThisUpdate ==
    [][\A p \in Positions, d \in Durations :
          (HandlePlaybackStatusUpdate(p, d) /\ saved' # <<>>)
          => /\ saved'[1].play_time = p \div 1000
             /\ saved'[1].total_time = d \div 1000]_vars

\* C33 as stated: once playEpisode or an automatic advance has moved the
\* session to another episode than the one it was loaded with, handleLoad
\* does not seek to the resume position that loadVideo computed.
C33_ResumeAppliedOnce ==
    [][\A d \in Durations :
          (/\ HandleLoad(d)
           /\ episodes # <<>>
           /\ pendingLoads = {}
           /\ currentEpisodeIndex # latestLoad.episodeIndex
           /\ initialPosition > 0)
          => engineCalls' # << <<"seek", initialPosition, 1000>> >>]_vars

\* C34 as stated: between an automatic advance and the next handleLoad, an
\* update that still lies at or past the outro point does not advance
\* currentEpisodeIndex again; and an automatic advance never takes the index
\* past the last episode.  Every update of SpecOutro lies at or past the outro
\* point, so there an update made with the point set and an episode to follow
\* has advanced: a state with the point set and an episode to follow that an
\* update has just led to, handleLoad having run before, is a state between
\* an advance and the next handleLoad.
C34_AdvanceOncePerEpisode ==
    /\ [][\A p \in {9500, 10000} :
             (/\ HandlePlaybackStatusUpdate(p, 10000)
              /\ lastOp = "handlePlaybackStatusUpdate"
              /\ status.isLoaded
              /\ Truthy(outroStartTime)
              /\ HasNextEpisode(currentEpisodeIndex, episodes))
             => currentEpisodeIndex' = currentEpisodeIndex]_vars
    /\ [][\A p \in {9500, 10000} :
             HandlePlaybackStatusUpdate(p, 10000)
             => /\ currentEpisodeIndex' \in {currentEpisodeIndex, currentEpisodeIndex + 1}
                /\ currentEpisodeIndex' <= Len(episodes) - 1]_vars

\* C35 as stated, in the states where the effect has run for the current
\* episode (the render in which the episode changes aside): a filtered URL
\* that is not empty is the one made for the current episode's URL, whatever
\* the order in which the filterM3U8 calls return.
C35_FilteredUrlIsCurrent ==
    (/\ urlSeen = SelectCurrentEpisode
     /\ SelectCurrentEpisode # NoEpisodeUrl
     /\ filteredUrlState # NoUrlYet)
    => filteredUrlState.of = SelectCurrentEpisode

\* C36 as stated: the step that follows reset, unless it is a new loadVideo
\* call, leaves the episodes, the episode index, the resume position and the
\* skip points as reset set them; so a loadVideo that was waiting for the
\* play record when reset ran installs nothing.
C36_ResetIsFinal ==
    [][(lastOp = "reset" /\ lastOp' # "loadVideo")
       => /\ episodes' = <<>>
          /\ currentEpisodeIndex' = currentEpisodeIndex
          /\ initialPosition' = 0
          /\ introEndTime' = Undefined
          /\ outroStartTime' = Undefined]_vars

\* a testPlaySource call whose HEAD request failed (abort, timeout or a
\* response that is not ok) stores an entry that is not available
C37_FailureStored ==
    \A id \in DOMAIN probes :
       (TestPlaySourceReturns(id) /\ probes[id].latency = Infinity)
       => LET entry == speedTestCache'[probes[id].url]
          IN  /\ entry.present
              /\ ~entry.result.isAvailable
              /\ entry.result.latency = -1
              /\ entry.timestamp = now
              /\ probeEvent'.result = entry.result

\* a testPlaySource call that finds such an entry less than 10 minutes old
\* returns it, without a request; its score is 0
C37_FailureServed ==
    \A u \in Urls :
       (/\ TestPlaySourceStart(u)
        /\ speedTestCache[u].present
        /\ ~speedTestCache[u].result.isAvailable
        /\ now - speedTestCache[u].timestamp < 600000)
       => /\ probeEvent'.hit
          /\ probeEvent'.fetches = 0
          /\ probes' = probes
          /\ probeEvent'.result = speedTestCache[u].result
          /\ ~probeEvent'.result.isAvailable
          /\ \A r \in Resolutions, n \in EpisodeCounts :
                CalculateSourceScore(probeEvent'.result.latency,
                                     probeEvent'.result.downloadSpeed, r, n,
                                     probeEvent'.result.isAvailable) = 0

C38_Keys(list) == {list[i].source : i \in 1..Len(list)}

\* C38 as stated: the run that fetchDetailData starts goes over the sources
\* that discovery has put on the list, and no step of the run takes a source
\* off the list on screen, so the list published at the end holds every
\* discovered source.
C38_DiscoveredSourcesStay ==
    [][/\ (cycleIndex = 0 /\ cycleIndex' = 1)
          => C38_Keys(currentResults') = C38_Keys(searchResults')
       /\ cycleIndex >= 1
          => C38_Keys(searchResults) \subseteq C38_Keys(searchResults')]_vars

\* C39: the cache of filterM3U8 is keyed by the URL alone.  A call that finds
\* a result stored for its URL less than 10 minutes ago returns that result
\* and starts no fetch, whatever its options are (removeAds false after
\* removeAds true for one); any other call fetches.  A call that got its
\* playlist stores the result it returns under its URL; a call that ends in
\* the pass-through of the catch block leaves the cache as it was.
C39_CacheKeyedByUrlAlone ==
    [][/\ \A u \in FilterUrls, o \in OptionSets :
             FilterM3U8Start(u, o)
             => IF /\ filterCache[u].present
                   /\ now - filterCache[u].result.timestamp < AdFilter_CACHE_DURATION
                   THEN /\ filterEvent'.op = "filterM3U8"
                        /\ filterEvent'.hit
                        /\ filterEvent'.result = filterCache[u].result
                        /\ filterCalls' = filterCalls
                        /\ filterCache' = filterCache
                   ELSE /\ filterEvent'.op = "fetch"
                        /\ DOMAIN filterCalls' # DOMAIN filterCalls
                        /\ filterCache' = filterCache
       /\ \A id \in DOMAIN filterCalls :
             \A outcome \in FetchOutcomes(filterCalls[id].url) :
                FilterM3U8Resolves(id, outcome)
                => LET url == filterCalls[id].url
                   IN  IF filterEvent'.result = PassThrough(url)
                          THEN filterCache' = filterCache
                          ELSE /\ filterCache'[url].present
                               /\ filterCache'[url].result = filterEvent'.result
                               /\ filterEvent'.result.timestamp = now]_vars

\* a call that keeps the ads has been served, 599,999 ms after it was stored,
\* the result of a call that removed segments
C39_Witness ==
    /\ filterEvent.op = "filterM3U8"
    /\ filterEvent.hit
    /\ ~filterEvent.options.removeAds
    /\ filterEvent.result.removedSegments > 0
    /\ filterEvent.result = filterCache[filterEvent.url].result
    /\ now - filterEvent.result.timestamp = AdFilter_CACHE_DURATION - 1
    /\ DOMAIN filterCalls = {}

====
